---- MODULE Spec2Model ----
(***************************************************************************)
(* Model of the 0DTE option-chain pipeline.                                *)
(*                                                                         *)
(*   Spec        process_data.py run as a script: load_and_process_dataset *)
(*               (glob, per-file try/except, concat, summary prints), the  *)
(*               to_csv of the __main__ block and analyze_dataset.         *)
(*   SpecDerive  scripts/extract_liquidity_costs.py: the row loop of       *)
(*               calculate_liquidity_costs, its to_csv, and the two        *)
(*               reports main() runs on the derived table.                 *)
(*   SpecBand    the same script on quotes around the 0.5% moneyness band. *)
(*   SpecFlow    scripts/analyze_data.py: options_flow_analysis.           *)
(*   SpecGaps    scripts/spx_timeline_with_gaps.py.                        *)
(*   SpecGrid    scripts/interactive_3d.py, scripts/visualize_3d.py and    *)
(*               scripts/spx_based_3d.py: the visualizer is constructed,   *)
(*               then main() calls its builders one after the other, or a  *)
(*               caller of the class calls one builder.                    *)
(*   SpecE2E     process_data.py on one call file and one put file, then   *)
(*               extract_liquidity_costs.py on what is at the path it      *)
(*               reads (no code carries the first script's csv there).     *)
(*   SpecSources the same two scripts on two calls files and one puts file *)
(*               of one day, some of them without the lastPrice column.    *)
(*                                                                         *)
(* Strings that the code inspects (file paths) are sequences of one-       *)
(* character strings, so that substring tests and the digit search are     *)
(* computed, not assumed.  Prices are integers in a unit each quote        *)
(* universe states (half-ticks, quarter dollars or whole dollars), chosen  *)
(* so that the halving of the spread is exact.  Floats that arise from a   *)
(* division are exact quotients <<n, d>>; nan and the infinities are the   *)
(* quotients with d = 0.  Timestamps are days since 1970-01-01.            *)
(***************************************************************************)
EXTENDS Integers, Sequences, FiniteSets, TLC

VARIABLES
    disk,             \* the file system: path -> [readable, rows]
    csv_files,        \* process_data: result of glob.glob('dataset/*.csv')
    i,                \* process_data: number of files the for loop has handled
    dataframes,       \* process_data: the list the loop appends to
    errors,           \* process_data: the "Error processing {file}: {e}" lines
    combined_df,      \* process_data: result of pd.concat
    exc,              \* the exception that ended the script, or "none"
    pc,               \* position of the running script
    df,               \* extract_liquidity_costs: the table read from csv
    k,                \* extract_liquidity_costs: rows handled by iterrows loop
    liquidity_costs,  \* extract_liquidity_costs: the list of derived rows
    total_volume,     \* analyze_liquidity_patterns: liquidity_df['volume'].sum()
    weighted_avg_cost,\* analyze_liquidity_patterns: volume-weighted average cost
    total_mm_profit,  \* analyze_liquidity_patterns: summed market maker profit
    daily_by_type,    \* create_liquidity_visualizations: (date, side) groups
    pivot_data,       \* create_liquidity_visualizations: (date, side, category)
    flow_df,          \* analyze_data: self.df of SPXOptionsAnalyzer
    total_daily_volume, \* options_flow_analysis: per-date volume totals
    high_vol_threshold, \* options_flow_analysis: the 0.9 quantile
    high_vol_days,    \* options_flow_analysis: the flagged dates
    daily_data,       \* spx_timeline_with_gaps: one row per date, by date
    large_gaps,       \* spx_timeline_with_gaps: index -> days of a large gap
    gap_lines,        \* spx_timeline_with_gaps: the printed gap lines
    monthly_counts,   \* spx_timeline_with_gaps: dates per month
    grid_df,          \* 3D visualizers: self.df, sorted by date and strike
    surface           \* 3D visualizers: the grid and overlay of the last plot

reportVars == <<total_volume, weighted_avg_cost, total_mm_profit,
                daily_by_type, pivot_data>>
flowVars == <<flow_df, total_daily_volume, high_vol_threshold, high_vol_days>>
gapVars == <<daily_data, large_gaps, gap_lines, monthly_counts>>
gridVars == <<grid_df, surface>>
analysisVars == <<reportVars, flowVars, gapVars, gridVars>>

vars == <<disk, csv_files, i, dataframes, errors, combined_df, exc, pc,
          df, k, liquidity_costs, analysisVars>>

ingestVars == <<csv_files, i, dataframes, errors, combined_df>>
deriveVars == <<df, k, liquidity_costs>>

----------------------------------------------------------------------------
(* Bounds of the model *)

MaxFiles == 3
MaxFileRows == 2
MaxRows == 2
MaxTick == 1
MaxVolume == 1
MaxBandStep == 3
MaxFlowRows == 3
MaxGapRows == 3
MaxGridRows == 2
MaxSampleEvery == 3

----------------------------------------------------------------------------
(* Generic helpers *)

None == "None"
NoDate == <<>>

\* No analysis script has run
AnalysisIdle ==
    /\ total_volume = None
    /\ weighted_avg_cost = None
    /\ total_mm_profit = None
    /\ daily_by_type = <<>>
    /\ pivot_data = <<>>
    /\ flow_df = <<>>
    /\ total_daily_volume = <<>>
    /\ high_vol_threshold = None
    /\ high_vol_days = <<>>
    /\ daily_data = <<>>
    /\ large_gaps = <<>>
    /\ gap_lines = <<>>
    /\ monthly_counts = <<>>
    /\ grid_df = <<>>
    /\ surface = <<>>

\* A concat that stacks the frames last-first
RECURSIVE Flatten_LastFirst(_)
Flatten_LastFirst(ss) ==
    IF ss = <<>> THEN <<>> ELSE Flatten_LastFirst(Tail(ss)) \o Head(ss)

\* pd.concat(frames, ignore_index=True): the rows of the frames, in list order
RECURSIVE Flatten(_)
Flatten(ss) == IF ss = <<>> THEN <<>> ELSE Head(ss) \o Flatten(Tail(ss))

SetMin(S) == CHOOSE x \in S : \A y \in S : x <= y

\* `needle in haystack` of Python, on character sequences
Contains(haystack, needle) ==
    \E o \in 0..(Len(haystack) - Len(needle)) :
        \A j \in 1..Len(needle) : haystack[o + j] = needle[j]

Digits == {"0", "1", "2", "3", "4", "5", "6", "7", "8", "9"}

DigitVal(c) ==
    CASE c = "0" -> 0 [] c = "1" -> 1 [] c = "2" -> 2 [] c = "3" -> 3
      [] c = "4" -> 4 [] c = "5" -> 5 [] c = "6" -> 6 [] c = "7" -> 7
      [] c = "8" -> 8 [] c = "9" -> 9

----------------------------------------------------------------------------
(* The files of the model *)

PathCalls ==
    <<"d", "a", "t", "a", "s", "e", "t", "/", "c", "a", "l", "l", "s", "_",
      "2", "0", "2", "5", "0", "3", "0", "9", ".", "c", "s", "v">>
PathPuts ==
    <<"d", "a", "t", "a", "s", "e", "t", "/", "p", "u", "t", "s", "_",
      "2", "0", "2", "5", "0", "3", "0", "9", ".", "c", "s", "v">>
PathUndated ==
    <<"d", "a", "t", "a", "s", "e", "t", "/", "c", "a", "l", "l", "s",
      ".", "c", "s", "v">>
PathBadDate ==
    <<"d", "a", "t", "a", "s", "e", "t", "/", "p", "u", "t", "s", "_",
      "2", "0", "2", "5", "1", "3", "4", "0", ".", "c", "s", "v">>
PathNoSide ==
    <<"d", "a", "t", "a", "s", "e", "t", "/", "s", "p", "x", "_",
      "2", "0", "2", "5", "0", "5", "2", "2", "_", "2", "0", "2", "5", "0",
      "5", "2", "3", ".", "c", "s", "v">>
PathBoth ==
    <<"d", "a", "t", "a", "s", "e", "t", "/", "p", "u", "t", "s", "_",
      "c", "a", "l", "l", "s", "_", "2", "0", "2", "5", "0", "3", "1", "0",
      "_", "2", "0", "5", "5", ".", "c", "s", "v">>

PathUniverse ==
    <<PathCalls, PathPuts, PathUndated, PathBadDate, PathNoSide, PathBoth>>

Paths == {PathUniverse[n] : n \in DOMAIN PathUniverse}

PathNo(p) == CHOOSE n \in DOMAIN PathUniverse : PathUniverse[n] = p

CombinedCsv ==
    <<"s", "p", "x", "_", "0", "d", "t", "e", "_", "c", "o", "m", "b", "i",
      "n", "e", "d", ".", "c", "s", "v">>

\* Row r of the file at path p: the rows of the model's files are pairwise
\* different, within a file and across files.
RawRow(p, r) == [strike |-> 5000 + 100 * PathNo(p) + 5 * r, volume |-> r]

RawRows(p, n) == [r \in 1..n |-> RawRow(p, r)]

\* What can be on disk at path p: a file pandas cannot parse (n < 0), or a
\* table of n rows, n in 0..MaxFileRows.
Content(p, n) ==
    IF n < 0 THEN [readable |-> FALSE, rows |-> <<>>]
    ELSE [readable |-> TRUE, rows |-> RawRows(p, n)]

\* The orders in which glob can list the files of S
Orders(S) ==
    {s \in [1..Cardinality(S) -> S] : \A a, b \in DOMAIN s : a # b => s[a] # s[b]}

----------------------------------------------------------------------------
(* process_data.py *)

\* re.search(r'(\d{8})', filename): offsets (0-based) at which 8 digits start
DateMatches(filename) ==
    {o \in 0..(Len(filename) - 8) : \A j \in 1..8 : filename[o + j] \in Digits}

IsLeap(y) == (y % 4 = 0 /\ y % 100 # 0) \/ y % 400 = 0

DaysInMonth(y, m) ==
    IF m = 2 THEN (IF IsLeap(y) THEN 29 ELSE 28)
    ELSE IF m \in {4, 6, 9, 11} THEN 30 ELSE 31

\* datetime.strptime(token, '%Y%m%d').date() on an 8-digit token: the fields
\* it reads, and whether it raises ValueError
TokenYear(t) ==
    1000 * DigitVal(t[1]) + 100 * DigitVal(t[2]) + 10 * DigitVal(t[3]) + DigitVal(t[4])
TokenMonth(t) == 10 * DigitVal(t[5]) + DigitVal(t[6])
TokenDay(t) == 10 * DigitVal(t[7]) + DigitVal(t[8])

strptime_raises(t) ==
    ~ ( /\ TokenYear(t) >= 1
        /\ TokenMonth(t) \in 1..12
        /\ TokenDay(t) \in 1..DaysInMonth(TokenYear(t), TokenMonth(t)) )

strptime(t) == <<TokenYear(t), TokenMonth(t), TokenDay(t)>>

\* A search that returns the last run of 8 digits
DateToken_LastMatch(filename) ==
    LET o == CHOOSE x \in DateMatches(filename) :
                 \A y \in DateMatches(filename) : y <= x
    IN  SubSeq(filename, o + 1, o + 8)

\* match.group(1): the leftmost run of 8 digits
DateToken(filename) ==
    LET o == SetMin(DateMatches(filename)) IN SubSeq(filename, o + 1, o + 8)

extract_date_raises(filename) ==
    DateMatches(filename) # {} /\ strptime_raises(DateToken(filename))

extract_date_from_filename(filename) ==
    IF DateMatches(filename) # {} THEN strptime(DateToken(filename)) ELSE NoDate

TokCalls == <<"c", "a", "l", "l", "s">>
TokPuts == <<"p", "u", "t", "s">>

\* An extract_option_type that tests 'puts' before 'calls'
extract_option_type_PutsFirst(filename) ==
    IF Contains(filename, TokPuts) THEN "put"
    ELSE IF Contains(filename, TokCalls) THEN "call"
    ELSE None

extract_option_type(filename) ==
    IF Contains(filename, TokCalls) THEN "call"
    ELSE IF Contains(filename, TokPuts) THEN "put"
    ELSE None

\* os.path.basename
basename(path) ==
    LET slashes == {n \in 1..Len(path) : path[n] = "/"} IN
    IF slashes = {} THEN path
    ELSE SubSeq(path, (CHOOSE n \in slashes : \A m \in slashes : m <= n) + 1, Len(path))

\* df['date'] = date; df['option_type'] = option_type; df['filename'] = ...
\* on one row: the three columns are set, every other column is kept
AddMetadata(row, date, option_type, filename) ==
    [c \in DOMAIN row \cup {"date", "option_type", "filename"} |->
        CASE c = "date" -> date
          [] c = "option_type" -> option_type
          [] c = "filename" -> filename
          [] OTHER -> row[c]]

\* The data frame the loop body appends for `file`
TaggedFrame(file, rows) ==
    LET date == extract_date_from_filename(file)
        option_type == extract_option_type(file)
        filename == basename(file)
    IN  [r \in 1..Len(rows) |-> AddMetadata(rows[r], date, option_type, filename)]

\* The try block of the loop body raises for `file`
LoadRaises(file) == extract_date_raises(file) \/ ~ disk[file].readable

LoadError(file) ==
    IF extract_date_raises(file) THEN "ValueError" ELSE "ParserError"

\* combined_df['date'].min(): an object column that mixes None with
\* datetime.date values cannot be reduced (None is replaced by inf and the
\* comparison of a date with a float raises TypeError)
DateMinRaises(table) ==
    /\ \E r \in DOMAIN table : table[r].date = NoDate
    /\ \E r \in DOMAIN table : table[r].date # NoDate

Init ==
    /\ \E S \in SUBSET Paths :
          /\ Cardinality(S) <= MaxFiles
          /\ csv_files \in Orders(S)
          /\ \E n \in [S -> (-1)..MaxFileRows] :
                disk = [p \in S |-> Content(p, n[p])]
    /\ i = 0
    /\ dataframes = <<>>
    /\ errors = <<>>
    /\ combined_df = <<>>
    /\ exc = "none"
    /\ pc = "loop"
    /\ df = <<>>
    /\ k = 0
    /\ liquidity_costs = <<>>
    /\ AnalysisIdle

\* A loop whose try/except encloses the for statement: the first error ends it
LoopBody_StopOnError ==
    /\ pc = "loop"
    /\ i < Len(csv_files)
    /\ LET file == csv_files[i + 1] IN
          IF LoadRaises(file)
          THEN /\ errors' = Append(errors, [file |-> file, error |-> LoadError(file)])
               /\ dataframes' = dataframes
               /\ i' = Len(csv_files)
          ELSE /\ dataframes' = Append(dataframes, TaggedFrame(file, disk[file].rows))
               /\ errors' = errors
               /\ i' = i + 1
    /\ UNCHANGED <<analysisVars, disk, csv_files, combined_df, exc, pc, deriveVars>>

\* One iteration of `for file in csv_files`, with its try/except
LoopBody ==
    /\ pc = "loop"
    /\ i < Len(csv_files)
    /\ LET file == csv_files[i + 1] IN
          IF LoadRaises(file)
          THEN /\ errors' = Append(errors, [file |-> file, error |-> LoadError(file)])
               /\ dataframes' = dataframes
          ELSE /\ dataframes' = Append(dataframes, TaggedFrame(file, disk[file].rows))
               /\ errors' = errors
    /\ i' = i + 1
    /\ UNCHANGED <<analysisVars, disk, csv_files, combined_df, exc, pc, deriveVars>>

\* A load_and_process_dataset that also writes the combined csv itself
ConcatAndReturn_Saves ==
    /\ pc = "loop"
    /\ i = Len(csv_files)
    /\ IF dataframes = <<>>
       THEN /\ exc' = "ValueError"
            /\ pc' = "raised"
            /\ combined_df' = combined_df
            /\ disk' = disk
       ELSE /\ combined_df' = Flatten(dataframes)
            /\ disk' = [p \in DOMAIN disk \cup {CombinedCsv} |->
                           IF p = CombinedCsv
                           THEN [readable |-> TRUE, rows |-> Flatten(dataframes)]
                           ELSE disk[p]]
            /\ IF DateMinRaises(Flatten(dataframes))
               THEN exc' = "TypeError" /\ pc' = "raised"
               ELSE exc' = exc /\ pc' = "returned"
    /\ UNCHANGED <<analysisVars, csv_files, i, dataframes, errors, deriveVars>>

\* pd.concat(dataframes, ignore_index=True), the three summary prints, return
ConcatAndReturn ==
    /\ pc = "loop"
    /\ i = Len(csv_files)
    /\ IF dataframes = <<>>
       THEN /\ exc' = "ValueError"
            /\ pc' = "raised"
            /\ combined_df' = combined_df
       ELSE /\ combined_df' = Flatten(dataframes)
            /\ IF DateMinRaises(Flatten(dataframes))
               THEN exc' = "TypeError" /\ pc' = "raised"
               ELSE exc' = exc /\ pc' = "returned"
    /\ UNCHANGED <<analysisVars, disk, csv_files, i, dataframes, errors, deriveVars>>

\* __main__: df.to_csv('spx_0dte_combined.csv', index=False)
SaveCombined ==
    /\ pc = "returned"
    /\ disk' = [p \in DOMAIN disk \cup {CombinedCsv} |->
                   IF p = CombinedCsv
                   THEN [readable |-> TRUE, rows |-> combined_df]
                   ELSE disk[p]]
    /\ pc' = "saved"
    /\ UNCHANGED <<analysisVars, ingestVars, exc, deriveVars>>

\* df.columns: the fields the rows of the frame carry.  A frame without rows
\* has the header of its files, which for the files of RawRows is strike and
\* volume: none of the columns analyze_dataset reads after 'date'.
Columns(table) == UNION {DOMAIN table[r] : r \in DOMAIN table}

\* __main__ line 86, analyze_dataset(df): the columns read at lines 66-71;
\* df[c] raises KeyError for a column the frame does not have.  The csv is
\* written by then.
AnalyzeDataset ==
    /\ pc = "saved"
    /\ IF {"spx_close", "vix_close", "volume", "openInterest"}
             \subseteq Columns(combined_df)
       THEN /\ pc' = "ingest_done"
            /\ exc' = exc
       ELSE /\ pc' = "raised"
            /\ exc' = "KeyError"
    /\ UNCHANGED <<analysisVars, disk, ingestVars, deriveVars>>

Next == LoopBody \/ ConcatAndReturn \/ SaveCombined \/ AnalyzeDataset

Spec == Init /\ [][Next]_vars

----------------------------------------------------------------------------
(* Properties of process_data.py (stated for Spec) *)

Range(s) == {s[n] : n \in DOMAIN s}

\* What each file of the model is, read off its name by hand
NameHasNoDate(p) == p = PathUndated
NameHasBadDate(p) == p = PathBadDate
DateInName(p) ==
    CASE p = PathCalls -> <<2025, 3, 9>>
      [] p = PathPuts -> <<2025, 3, 9>>
      [] p = PathNoSide -> <<2025, 5, 22>>
      [] p = PathBoth -> <<2025, 3, 10>>
      [] OTHER -> NoDate
SideInName(p) ==
    CASE p = PathCalls -> "call"
      [] p = PathPuts -> "put"
      [] p = PathUndated -> "call"
      [] p = PathBadDate -> "put"
      [] p = PathBoth -> "call"
      [] OTHER -> None
NameOnly(p) == SubSeq(p, 9, Len(p))

\* The source raised inside the try block
SourceFailed(p) == ~ disk[p].readable \/ NameHasBadDate(p)

Handled == {csv_files[n] : n \in 1..i}

\* The rows of `table` that carry the file name of source p, without the
\* three metadata columns
RowsFrom(table, p) ==
    LET FromP(row) == row.filename = NameOnly(p)
        picked == SelectSeq(table, FromP)
    IN  [r \in DOMAIN picked |-> [strike |-> picked[r].strike, volume |-> picked[r].volume]]

\* load_and_process_dataset has returned its table: the script is at the
\* to_csv, at analyze_dataset, past it, or was ended by analyze_dataset
TableReturned ==
    \/ pc \in {"returned", "saved", "ingest_done"}
    \/ pc = "raised" /\ exc = "KeyError"

\* C1: a source whose name holds no 8-digit date token is skipped: none of
\* its rows are in the normalized table, and every other source is ingested.
C1_UndatedSourceSkipped ==
    TableReturned =>
        \A p \in Range(csv_files) :
            IF NameHasNoDate(p)
            THEN RowsFrom(combined_df, p) = <<>>
            ELSE SourceFailed(p) \/ RowsFrom(combined_df, p) = disk[p].rows

\* C2: when no source was ingested, ingestion ends with the dedicated
\* EmptyDatasetError, and no combined table has been written.
C2_EmptyDatasetError ==
    (pc # "loop" /\ dataframes = <<>>) =>
        /\ pc = "raised"
        /\ exc = "EmptyDatasetError"
        /\ CombinedCsv \notin DOMAIN disk

\* C3: a source whose content cannot be read adds no row at all, its failure
\* is logged with its path, and each source handled before or after it is
\* ingested in full (in the list of frames and in the returned table).
C3_UnreadableSourceIsolated ==
    \A p \in Handled :
        ~ disk[p].readable =>
            /\ RowsFrom(Flatten(dataframes), p) = <<>>
            /\ \E e \in Range(errors) : e.file = p
            /\ Len(dataframes) + Len(errors) = i
            /\ \A q \in Handled \ {p} :
                  ~ SourceFailed(q) =>
                      /\ RowsFrom(Flatten(dataframes), q) = disk[q].rows
                      /\ TableReturned => RowsFrom(combined_df, q) = disk[q].rows
            /\ TableReturned => RowsFrom(combined_df, p) = <<>>

C3_Witness ==
    /\ TableReturned
    /\ Len(csv_files) = 3
    /\ ~ disk[csv_files[2]].readable
    /\ Len(RowsFrom(combined_df, csv_files[1])) = 2
    /\ Len(RowsFrom(combined_df, csv_files[3])) = 2
    /\ \E e \in Range(errors) : e.file = csv_files[2]

\* C4: the side of a source is call when its name contains "calls", put when
\* it contains "puts" (and not "calls", which is tested first), and None
\* otherwise; the rows of a source with side None are in the table.
C4_OptionSideFromName ==
    /\ \A f \in Range(dataframes) : \A r \in DOMAIN f :
          \E p \in Handled : f[r].filename = NameOnly(p)
    /\ \A p \in Handled :
          LET calls == Contains(p, TokCalls)
              puts == Contains(p, TokPuts)
              side == IF calls THEN "call" ELSE IF puts THEN "put" ELSE None
          IN  /\ side = SideInName(p)
              /\ \A f \in Range(dataframes) : \A r \in DOMAIN f :
                    f[r].filename = NameOnly(p) => f[r].option_type = side
              /\ (side = None /\ ~ SourceFailed(p)) =>
                    /\ RowsFrom(Flatten(dataframes), p) = disk[p].rows
                    /\ TableReturned =>
                          /\ RowsFrom(combined_df, p) = disk[p].rows
                          /\ \A r \in DOMAIN combined_df :
                                combined_df[r].filename = NameOnly(p) =>
                                    combined_df[r].option_type = None

C4_Witness ==
    /\ TableReturned
    /\ \E r \in DOMAIN combined_df :
          combined_df[r].filename = NameOnly(PathNoSide) /\ combined_df[r].option_type = None
    /\ \E r \in DOMAIN combined_df :
          combined_df[r].filename = NameOnly(PathBoth) /\ combined_df[r].option_type = "call"
    /\ \E r \in DOMAIN combined_df :
          combined_df[r].filename = NameOnly(PathPuts) /\ combined_df[r].option_type = "put"

\* The table the sources `files` should give: for each source that did not
\* fail, in order, its rows in order, each with the date, side and name of
\* the source
RECURSIVE ExpectedTable(_)
ExpectedTable(files) ==
    IF files = <<>> THEN <<>>
    ELSE LET p == Head(files)
             rows == disk[p].rows
             mine == IF SourceFailed(p) THEN <<>>
                     ELSE [r \in DOMAIN rows |->
                              [strike |-> rows[r].strike,
                               volume |-> rows[r].volume,
                               date |-> DateInName(p),
                               option_type |-> SideInName(p),
                               filename |-> NameOnly(p)]]
         IN  mine \o ExpectedTable(Tail(files))

RECURSIVE RowCount(_)
RowCount(files) ==
    IF files = <<>> THEN 0
    ELSE (IF SourceFailed(Head(files)) THEN 0 ELSE Len(disk[Head(files)].rows))
            + RowCount(Tail(files))

\* C5: the returned table is the concatenation, in processing order, of the
\* rows of the sources that did not fail, each in its own order and each with
\* the date, side and name of its file; its length is the sum of their lengths.
C5_TableIsConcatenation ==
    TableReturned =>
        /\ combined_df = ExpectedTable(csv_files)
        /\ Len(combined_df) = RowCount(csv_files)

C5_Witness ==
    /\ TableReturned
    /\ Len(csv_files) = 3
    /\ \E n \in 1..3 : SourceFailed(csv_files[n])
    /\ Len(combined_df) = 4
    /\ combined_df[1].filename # combined_df[3].filename
    /\ combined_df[1].strike # combined_df[2].strike

\* C6: load_and_process_dataset writes nothing: the file system changes only
\* in the caller's to_csv, after the table has been returned.
C6_LoadWritesNothing ==
    [][disk' # disk =>
          /\ pc = "returned" /\ pc' = "saved" /\ exc = "none"
          /\ \A p \in DOMAIN disk : p \in DOMAIN disk' /\ disk'[p] = disk[p]
          /\ DOMAIN disk' = DOMAIN disk \cup {CombinedCsv}]_vars

C6_Witness ==
    /\ pc = "saved"
    /\ CombinedCsv \in DOMAIN disk
    /\ disk[CombinedCsv].rows = combined_df
    /\ Len(combined_df) > 0

\* The number written by the digits of path p at positions from..to
RECURSIVE NumberAt(_, _, _)
NumberAt(p, from, to) ==
    IF to < from THEN 0 ELSE 10 * NumberAt(p, from, to - 1) + DigitVal(p[to])

\* Position n of path p starts a run of 8 digits
RunAt(p, n) == n + 7 <= Len(p) /\ \A j \in n..(n + 7) : p[j] \in Digits

\* The year, month and day written by the first run of 8 digits of path p
FirstRunDate(p) ==
    LET n == CHOOSE n \in 1..Len(p) : RunAt(p, n) /\ \A m \in 1..(n - 1) : ~ RunAt(p, m)
    IN  <<NumberAt(p, n, n + 3), NumberAt(p, n + 4, n + 5), NumberAt(p, n + 6, n + 7)>>

IsCalendarDate(d) ==
    d[1] >= 1 /\ d[2] \in 1..12 /\ d[3] >= 1 /\ d[3] <= DaysInMonth(d[1], d[2])

\* C28: the trade date of a source is read from the first run of 8 digits
\* found anywhere in its path; when that run is not a calendar date the
\* error is caught: it is logged, the source adds no row, and the sources
\* before and after it are still processed.
C28_DateFromFirstDigitRun ==
    /\ Len(dataframes) + Len(errors) = i
    /\ \A p \in Handled :
          (\E n \in 1..Len(p) : RunAt(p, n)) =>
              IF IsCalendarDate(FirstRunDate(p))
              THEN /\ \A f \in Range(dataframes) : \A r \in DOMAIN f :
                         f[r].filename = NameOnly(p) => f[r].date = FirstRunDate(p)
                   /\ disk[p].readable =>
                         RowsFrom(Flatten(dataframes), p) = disk[p].rows
              ELSE /\ RowsFrom(Flatten(dataframes), p) = <<>>
                   /\ \E e \in Range(errors) : e.file = p /\ e.error = "ValueError"
                   /\ TableReturned => RowsFrom(combined_df, p) = <<>>
    /\ pc # "loop" => i = Len(csv_files)

C28_Witness ==
    /\ TableReturned
    /\ csv_files = <<PathNoSide, PathBadDate, PathCalls>>
    /\ Len(disk[PathBadDate].rows) = 2
    /\ errors = <<[file |-> PathBadDate, error |-> "ValueError"]>>
    /\ Len(combined_df) = 4
    /\ combined_df[1].date = <<2025, 5, 22>>
    /\ combined_df[3].date = <<2025, 3, 9>>
    /\ FirstRunDate(PathBadDate) = <<2025, 13, 40>>

\* The frames a run appends when glob lists the files in the order `files`
RECURSIVE FramesOf(_)
FramesOf(files) ==
    IF files = <<>> THEN <<>>
    ELSE (IF LoadRaises(Head(files)) THEN <<>>
          ELSE <<TaggedFrame(Head(files), disk[Head(files)].rows)>>)
             \o FramesOf(Tail(files))

\* C23: the normalized table is a function of the set of source files
\* alone: a run over the same files, in whatever order they are listed,
\* returns the same rows in the same order.
C23_TableFunctionOfFileSet ==
    TableReturned =>
        \A order \in Orders(Range(csv_files)) :
            Flatten(FramesOf(order)) = combined_df

----------------------------------------------------------------------------
(* Timestamps.  The csv holds a date as text; pd.to_datetime turns it into  *)
(* a Timestamp at midnight, kept here as the number of days since          *)
(* 1970-01-01, and .date() / strftime turn it back into year, month, day.  *)
(* An empty date field becomes NaT.                                        *)

\* pandas keeps NaT as the least integer; here a number below every date
NaT == -1000000

to_datetime(date) ==
    IF date = NoDate THEN NaT ELSE
    LET y == IF date[2] <= 2 THEN date[1] - 1 ELSE date[1]
        era == y \div 400
        yoe == y - era * 400
        mp == IF date[2] > 2 THEN date[2] - 3 ELSE date[2] + 9
        doy == (153 * mp + 2) \div 5 + date[3] - 1
        doe == yoe * 365 + yoe \div 4 - yoe \div 100 + doy
    IN  era * 146097 + doe - 719468

timestamp_date(ts) ==
    LET z == ts + 719468
        era == z \div 146097
        doe == z - era * 146097
        yoe == (doe - doe \div 1460 + doe \div 36524 - doe \div 146096) \div 365
        doy == doe - (365 * yoe + yoe \div 4 - yoe \div 100)
        mp == (5 * doy + 2) \div 153
        d == doy - (153 * mp + 2) \div 5 + 1
        m == IF mp < 10 THEN mp + 3 ELSE mp - 9
        y == yoe + era * 400
    IN  <<IF m <= 2 THEN y + 1 ELSE y, m, d>>

----------------------------------------------------------------------------
(* scripts/extract_liquidity_costs.py *)

ProcessedCsv ==
    <<"d", "a", "t", "a", "s", "e", "t", "/", "p", "r", "o", "c", "e", "s",
      "s", "e", "d", "/", "s", "p", "x", "_", "0", "d", "t", "e", "_", "c",
      "o", "m", "b", "i", "n", "e", "d", ".", "c", "s", "v">>

LiquidityCsv ==
    <<"d", "a", "t", "a", "s", "e", "t", "/", "p", "r", "o", "c", "e", "s",
      "s", "e", "d", "/", "l", "i", "q", "u", "i", "d", "i", "t", "y", "_",
      "c", "o", "s", "t", "s", "_", "a", "n", "a", "l", "y", "s", "i", "s",
      ".", "c", "s", "v">>

\* Prices of the model, in half-ticks: whole ticks only
Prices == {2 * t : t \in 0..MaxTick}
SpxCloses == {2 * t : t \in 1..MaxTick}
Strikes == {2 * t : t \in 0..(MaxTick + 1)}
LastPrices == {2 * t : t \in 0..(MaxTick + 1)}

\* The rows the combined csv can hold (the columns the script reads, and the
\* inTheMoney column of the source)
Quotes ==
    [date : {<<2025, 3, 9>>},
     option_type : {"call", "put", None},
     strike : Strikes,
     spx_close : SpxCloses,
     lastPrice : LastPrices,
     bid : Prices,
     ask : Prices,
     volume : 0..MaxVolume,
     inTheMoney : BOOLEAN]

Tables(Q, n) == UNION {[1..m -> Q] : m \in 0..n}

Max(a, b) == IF a >= b THEN a ELSE b
Abs(a) == IF a >= 0 THEN a ELSE -a

\* A quotient n / d of two numbers of the model, d > 0, kept exact
Ratio(n, d) == <<n, d>>
RatioLess(a, b) == a[1] * b[2] < b[1] * a[2]
RatioAbs(a) == <<Abs(a[1]), a[2]>>

\* The literal 0.005
AtmBand == Ratio(5, 1000)

\* lines 19-23: the three columns added to the whole frame
AddColumns(row) ==
    [c \in DOMAIN row \cup {"intrinsic_value_call", "intrinsic_value_put", "moneyness"} |->
        CASE c = "intrinsic_value_call" -> Max(row.spx_close - row.strike, 0)
          [] c = "intrinsic_value_put" -> Max(row.strike - row.spx_close, 0)
          [] c = "moneyness" -> Ratio(row.strike - row.spx_close, row.spx_close)
          [] OTHER -> row[c]]

\* An intrinsic value without the floor at 0
intrinsic_value_NoFloor(option_type, spx_close, strike) ==
    IF option_type = "call" THEN spx_close - strike ELSE strike - spx_close

\* An intrinsic value that is 0 for a row that is neither a call nor a put
intrinsic_value_SidedOnly(option_type, spx_close, strike) ==
    IF option_type = "call" THEN Max(spx_close - strike, 0)
    ELSE IF option_type = "put" THEN Max(strike - spx_close, 0)
    ELSE 0

\* lines 40-45
intrinsic_value(option_type, spx_close, strike) ==
    IF option_type = "call"
    THEN Max(spx_close - strike, 0)
    ELSE Max(strike - spx_close, 0)

\* An is_itm that counts a quote at the strike as in the money
is_itm_AtStrike(option_type, spx_close, strike) ==
    IF option_type = "call" THEN spx_close >= strike ELSE strike >= spx_close

\* An is_itm that applies the rule of the calls to every row
is_itm_SideBlind(option_type, spx_close, strike) == spx_close > strike

is_itm(option_type, spx_close, strike) ==
    IF option_type = "call" THEN spx_close > strike ELSE strike > spx_close

\* A time value clamped at 0
time_value_Clamped(last_price, intrinsic) == Max(0, last_price - intrinsic)

\* line 48
time_value(last_price, intrinsic) == last_price - intrinsic

\* lines 49-50
bid_ask_spread(bid, ask) == ask - bid
mid_price(bid, ask) == (bid + ask) \div 2

\* An ITM discount without the floor at 0
itm_discount_NoFloor(itm, intrinsic, last_price) ==
    IF itm /\ intrinsic > 0 THEN intrinsic - last_price ELSE 0

\* lines 54-56
itm_discount(itm, intrinsic, last_price) ==
    IF itm /\ intrinsic > 0 THEN Max(0, intrinsic - last_price) ELSE 0

\* line 59
spread_cost(spread) == spread \div 2

\* lines 62-65
last_vs_mid(mid, last_price) ==
    IF mid > 0 THEN Ratio(mid - last_price, mid) ELSE Ratio(0, 1)

\* A liquidity cost that never adds the ITM discount
effective_liquidity_cost_SpreadOnly(itm, discount, scost) == scost

\* lines 70-73
effective_liquidity_cost(itm, discount, scost) ==
    IF itm THEN discount + scost ELSE scost

\* lines 76-81
moneyness_category(moneyness) ==
    IF RatioLess(RatioAbs(moneyness), AtmBand) THEN "ATM"
    ELSE IF RatioLess(AtmBand, moneyness) THEN "OTM_Call/ITM_Put"
    ELSE "ITM_Call/OTM_Put"

\* The floats nan, inf and -inf, written as quotients by 0
NaN == Ratio(0, 0)

\* lines 47-103: the rest of the loop body, once intrinsic_value and is_itm
\* are known: the dictionary appended for the row.  A cell that holds nan
\* (the lastPrice of a row whose source has no such column, filled in by
\* pd.concat) is a field the record of the row does not have.  With
\* last_price = nan: last_price - intrinsic_value is nan, max(0, nan) is 0
\* (nan > 0 is False, so max keeps its first argument), and
\* (mid_price - nan) / mid_price is nan.
RowRecord(row, intrinsic, itm) ==
    LET has_last == "lastPrice" \in DOMAIN row
        spread == bid_ask_spread(row.bid, row.ask)
        mid == mid_price(row.bid, row.ask)
        discount == IF has_last THEN itm_discount(itm, intrinsic, row.lastPrice)
                    ELSE 0
        scost == spread_cost(spread)
        elc == effective_liquidity_cost(itm, discount, scost)
    IN  [date |-> row.date,
         spx_close |-> row.spx_close,
         strike |-> row.strike,
         option_type |-> row.option_type,
         last_price |-> IF has_last THEN row.lastPrice ELSE NaN,
         bid |-> row.bid,
         ask |-> row.ask,
         volume |-> row.volume,
         moneyness |-> row.moneyness,
         moneyness_category |-> moneyness_category(row.moneyness),
         intrinsic_value |-> intrinsic,
         time_value |-> IF has_last THEN time_value(row.lastPrice, intrinsic)
                        ELSE NaN,
         is_itm |-> itm,
         itm_discount |-> discount,
         spread_cost |-> scost,
         bid_ask_spread |-> spread,
         last_vs_mid |-> IF has_last THEN last_vs_mid(mid, row.lastPrice)
                         ELSE IF mid > 0 THEN NaN ELSE Ratio(0, 1),
         effective_liquidity_cost |-> elc,
         market_maker_profit_per_contract |-> elc * 100]

\* A loop body that takes is_itm from the inTheMoney column of the source
LiquidityRow_TrustsFlag(row) ==
    RowRecord(row, intrinsic_value(row.option_type, row.spx_close, row.strike),
              row.inTheMoney)

\* lines 29-103: the dictionary the loop body appends for one row
LiquidityRow(row) ==
    RowRecord(row, intrinsic_value(row.option_type, row.spx_close, row.strike),
              is_itm(row.option_type, row.spx_close, row.strike))

InitDerive ==
    /\ \E t \in Tables(Quotes, MaxRows) :
          disk = (ProcessedCsv :> [readable |-> TRUE, rows |-> t])
    /\ csv_files = <<>>
    /\ i = 0
    /\ dataframes = <<>>
    /\ errors = <<>>
    /\ combined_df = <<>>
    /\ exc = "none"
    /\ pc = "derive_start"
    /\ df = <<>>
    /\ k = 0
    /\ liquidity_costs = <<>>
    /\ AnalysisIdle

\* lines 12-23: read the combined csv, add the frame-level columns.  The
\* script is started on its own or after process_data.py has ended; it reads
\* what is at 'dataset/processed/spx_0dte_combined.csv', and pd.read_csv
\* raises FileNotFoundError when nothing is there.
ReadCombined ==
    /\ pc \in {"derive_start", "ingest_done"}
    /\ IF ProcessedCsv \notin DOMAIN disk
       THEN /\ exc' = "FileNotFoundError"
            /\ pc' = "raised"
            /\ df' = df
       ELSE /\ df' = [r \in DOMAIN disk[ProcessedCsv].rows |->
                        AddColumns([disk[ProcessedCsv].rows[r] EXCEPT
                                       !.date = to_datetime(@)])]
            /\ pc' = "derive_loop"
            /\ exc' = exc
    /\ UNCHANGED <<analysisVars, disk, ingestVars, k, liquidity_costs>>

\* A loop body that reads the strike of the first row of the frame
DeriveRow_FirstStrike ==
    /\ pc = "derive_loop"
    /\ k < Len(df)
    /\ IF \A r \in DOMAIN df : "lastPrice" \notin DOMAIN df[r]
       THEN /\ exc' = "KeyError"
            /\ pc' = "raised"
            /\ UNCHANGED <<liquidity_costs, k>>
       ELSE /\ liquidity_costs' =
                  Append(liquidity_costs,
                         LiquidityRow([df[k + 1] EXCEPT !.strike = df[1].strike]))
            /\ k' = k + 1
            /\ UNCHANGED <<exc, pc>>
    /\ UNCHANGED <<analysisVars, disk, ingestVars, df>>

\* lines 28-103: one iteration of `for _, row in df.iterrows()`.  The frame
\* has a lastPrice column when a row has a lastPrice; row['lastPrice'] raises
\* KeyError when the frame has no such column.
DeriveRow ==
    /\ pc = "derive_loop"
    /\ k < Len(df)
    /\ IF \A r \in DOMAIN df : "lastPrice" \notin DOMAIN df[r]
       THEN /\ exc' = "KeyError"
            /\ pc' = "raised"
            /\ UNCHANGED <<liquidity_costs, k>>
       ELSE /\ liquidity_costs' = Append(liquidity_costs, LiquidityRow(df[k + 1]))
            /\ k' = k + 1
            /\ UNCHANGED <<exc, pc>>
    /\ UNCHANGED <<analysisVars, disk, ingestVars, df>>

\* lines 106-113: build liquidity_df, write it, return it
SaveLiquidity ==
    /\ pc = "derive_loop"
    /\ k = Len(df)
    /\ disk' = [p \in DOMAIN disk \cup {LiquidityCsv} |->
                   IF p = LiquidityCsv
                   THEN [readable |-> TRUE, rows |-> liquidity_costs]
                   ELSE disk[p]]
    /\ pc' = "derive_done"
    /\ UNCHANGED <<analysisVars, ingestVars, exc, deriveVars>>

\* Series.sum()
RECURSIVE Sum(_)
Sum(s) == IF s = <<>> THEN 0 ELSE Head(s) + Sum(Tail(s))

\* frame[c], and the element-wise product of two columns
Column(rows, c) == [n \in DOMAIN rows |-> rows[n][c]]
Times(a, b) == [n \in DOMAIN a |-> a[n] * b[n]]

\* The division of two numpy scalars: n / 0 does not raise, 0 / 0 is nan
FloatDiv(n, d) ==
    IF d # 0 THEN Ratio(n, d)
    ELSE IF n = 0 THEN NaN
    ELSE IF n > 0 THEN Ratio(1, 0) ELSE Ratio(-1, 0)

\* An average that divides by the number of rows
weighted_avg_PerRow(rows) ==
    FloatDiv(Sum(Times(Column(rows, "effective_liquidity_cost"),
                       Column(rows, "volume"))),
             Len(rows))

\* lines 122, 189, 223: (cost * volume).sum() / volume.sum()
weighted_avg(rows) ==
    FloatDiv(Sum(Times(Column(rows, "effective_liquidity_cost"),
                       Column(rows, "volume"))),
             Sum(Column(rows, "volume")))

\* groupby drops the rows whose key is missing (a side that is None comes
\* back from the csv as nan)
Keyed(rows) == SelectSeq(rows, LAMBDA r : r.option_type # None /\ r.date # NaT)

\* groupby(['date', 'option_type']) and its groups
DateTypeKeys(rows) ==
    {<<Keyed(rows)[n].date, Keyed(rows)[n].option_type>> : n \in DOMAIN Keyed(rows)}
DateTypeGroup(rows, key) ==
    SelectSeq(Keyed(rows), LAMBDA r : <<r.date, r.option_type>> = key)

\* groupby(['date', 'option_type', 'moneyness_category']) and its groups
CategoryKeys(rows) ==
    {<<Keyed(rows)[n].date, Keyed(rows)[n].option_type,
       Keyed(rows)[n].moneyness_category>> : n \in DOMAIN Keyed(rows)}
CategoryGroup(rows, key) ==
    SelectSeq(Keyed(rows),
              LAMBDA r : <<r.date, r.option_type, r.moneyness_category>> = key)

\* lines 115-150: a frame built from an empty list has no 'volume' column
AnalyzeLiquidityPatterns ==
    /\ pc = "derive_done"
    /\ IF liquidity_costs = <<>>
       THEN /\ exc' = "KeyError"
            /\ pc' = "raised"
            /\ UNCHANGED reportVars
       ELSE /\ total_volume' = Sum(Column(liquidity_costs, "volume"))
            /\ weighted_avg_cost' = weighted_avg(liquidity_costs)
            /\ total_mm_profit' =
                  Sum(Times(Column(liquidity_costs, "market_maker_profit_per_contract"),
                            Column(liquidity_costs, "volume")))
            /\ pc' = "analyzed"
            /\ UNCHANGED <<exc, daily_by_type, pivot_data>>
    /\ UNCHANGED <<disk, ingestVars, deriveVars, flowVars, gapVars, gridVars>>

\* lines 152-263: the two volume-weighted groupings that are plotted
CreateLiquidityVisualizations ==
    /\ pc = "analyzed"
    /\ daily_by_type' =
          [key \in DateTypeKeys(liquidity_costs) |->
              [effective_liquidity_cost |->
                   weighted_avg(DateTypeGroup(liquidity_costs, key)),
               volume |-> Sum(Column(DateTypeGroup(liquidity_costs, key), "volume"))]]
    /\ pivot_data' =
          [key \in CategoryKeys(liquidity_costs) |->
              [effective_liquidity_cost |->
                   weighted_avg(CategoryGroup(liquidity_costs, key))]]
    /\ pc' = "visualized"
    /\ UNCHANGED <<disk, ingestVars, exc, deriveVars, total_volume,
                   weighted_avg_cost, total_mm_profit, flowVars, gapVars,
                   gridVars>>

NextDerive ==
    \/ ReadCombined
    \/ DeriveRow
    \/ SaveLiquidity
    \/ AnalyzeLiquidityPatterns
    \/ CreateLiquidityVisualizations

SpecDerive == InitDerive /\ [][NextDerive]_vars

\* Quotes around the 0.005 band: the strike is a whole number of ticks away
\* from a close of 400 ticks, so that 2 ticks are 0.005 of the close
BandQuotes ==
    [date : {<<2025, 3, 9>>, <<2025, 3, 10>>},
     option_type : {"call", "put", None},
     strike : {800 + 2 * s : s \in (-MaxBandStep)..MaxBandStep},
     spx_close : {800},
     lastPrice : {0},
     bid : {0},
     ask : {2},
     volume : {1},
     inTheMoney : {FALSE}]

InitBand ==
    /\ \E t \in Tables(BandQuotes, MaxRows) :
          disk = (ProcessedCsv :> [readable |-> TRUE, rows |-> t])
    /\ csv_files = <<>>
    /\ i = 0
    /\ dataframes = <<>>
    /\ errors = <<>>
    /\ combined_df = <<>>
    /\ exc = "none"
    /\ pc = "derive_start"
    /\ df = <<>>
    /\ k = 0
    /\ liquidity_costs = <<>>
    /\ AnalysisIdle

SpecBand == InitBand /\ [][NextDerive]_vars

----------------------------------------------------------------------------
(* Properties of calculate_liquidity_costs (stated for SpecDerive) *)

\* The quote that derived row j was computed from, as it is in the csv
QuoteOf(j) == disk[ProcessedCsv].rows[j]

Derived == DOMAIN liquidity_costs

IsSided(q) == q.option_type \in {"call", "put"}

\* C7: intrinsic_value is max(spx_close - strike, 0) for a call and
\* max(strike - spx_close, 0) for a put (the row value and the frame column
\* of that side agree); it is 0 for both at strike = spx_close and it is
\* never negative.
C7_IntrinsicValue ==
    \A j \in Derived :
        LET q == QuoteOf(j)
            v == liquidity_costs[j].intrinsic_value
        IN  /\ q.option_type = "call" =>
                  v = (IF q.spx_close - q.strike > 0 THEN q.spx_close - q.strike ELSE 0)
            /\ q.option_type = "put" =>
                  v = (IF q.strike - q.spx_close > 0 THEN q.strike - q.spx_close ELSE 0)
            /\ (IsSided(q) /\ q.strike = q.spx_close) => v = 0
            /\ v >= 0
            /\ q.option_type = "call" => v = df[j].intrinsic_value_call
            /\ q.option_type = "put" => v = df[j].intrinsic_value_put

C7_Witness ==
    /\ \E j \in Derived :
          /\ QuoteOf(j).option_type = "call"
          /\ QuoteOf(j).strike < QuoteOf(j).spx_close
          /\ liquidity_costs[j].intrinsic_value = QuoteOf(j).spx_close - QuoteOf(j).strike
    /\ \E j \in Derived :
          /\ QuoteOf(j).option_type = "put"
          /\ QuoteOf(j).strike = QuoteOf(j).spx_close
          /\ liquidity_costs[j].intrinsic_value = 0

\* Two quotes that differ at most in the inTheMoney column
SameButFlag(q1, q2) ==
    \A c \in DOMAIN q1 : c # "inTheMoney" => q1[c] = q2[c]

\* C8: is_itm is (spx_close > strike) for a call and (strike > spx_close)
\* for a put, whatever the inTheMoney column says: two quotes that differ
\* only in that column get the same derived row.
C8_ItmIgnoresSourceFlag ==
    /\ \A j \in Derived :
          LET q == QuoteOf(j) IN
          /\ q.option_type = "call" => (liquidity_costs[j].is_itm <=> q.spx_close > q.strike)
          /\ q.option_type = "put" => (liquidity_costs[j].is_itm <=> q.strike > q.spx_close)
    /\ \A j, l \in Derived :
          SameButFlag(QuoteOf(j), QuoteOf(l)) => liquidity_costs[j] = liquidity_costs[l]

C8_Witness ==
    \E j, l \in Derived :
        /\ SameButFlag(QuoteOf(j), QuoteOf(l))
        /\ IsSided(QuoteOf(j))
        /\ QuoteOf(j).inTheMoney /\ ~ QuoteOf(l).inTheMoney
        /\ liquidity_costs[j].is_itm /\ liquidity_costs[l].is_itm
        /\ liquidity_costs[j].itm_discount > 0

\* C9: time_value is last_price - intrinsic_value, unclamped: it is negative
\* whenever last_price is below intrinsic_value.
C9_TimeValueUnclamped ==
    \A j \in Derived :
        LET q == QuoteOf(j)
            d == liquidity_costs[j]
        IN  /\ d.time_value + d.intrinsic_value = q.lastPrice
            /\ q.lastPrice < d.intrinsic_value => d.time_value < 0

C9_Witness ==
    \E j \in Derived :
        /\ QuoteOf(j).lastPrice < liquidity_costs[j].intrinsic_value
        /\ liquidity_costs[j].time_value < 0

\* C10: itm_discount is max(0, intrinsic_value - last_price) when is_itm and
\* intrinsic_value > 0, else 0; spread_cost is (ask - bid) / 2;
\* effective_liquidity_cost is itm_discount + spread_cost when is_itm, else
\* spread_cost.
C10_LiquidityCost ==
    \A j \in Derived :
        LET q == QuoteOf(j)
            d == liquidity_costs[j]
            gap == d.intrinsic_value - q.lastPrice
        IN  /\ (d.is_itm /\ d.intrinsic_value > 0) =>
                  d.itm_discount = (IF gap > 0 THEN gap ELSE 0)
            /\ ~ (d.is_itm /\ d.intrinsic_value > 0) => d.itm_discount = 0
            /\ 2 * d.spread_cost = q.ask - q.bid
            /\ d.is_itm => d.effective_liquidity_cost = d.itm_discount + d.spread_cost
            /\ ~ d.is_itm => d.effective_liquidity_cost = d.spread_cost

C10_Witness ==
    /\ \E j \in Derived :
          /\ liquidity_costs[j].is_itm
          /\ liquidity_costs[j].itm_discount > 0
          /\ liquidity_costs[j].spread_cost # 0
          /\ liquidity_costs[j].effective_liquidity_cost
                = liquidity_costs[j].itm_discount + liquidity_costs[j].spread_cost
    /\ \E j \in Derived :
          /\ liquidity_costs[j].is_itm
          /\ QuoteOf(j).lastPrice > liquidity_costs[j].intrinsic_value
          /\ liquidity_costs[j].itm_discount = 0

\* C11: for every derived quote effective_liquidity_cost >= spread_cost; the
\* inequality is strict exactly when is_itm holds and itm_discount > 0, and
\* it is an equality whenever itm_discount = 0, also when ask < bid makes
\* spread_cost negative.
C11_CostAtLeastSpread ==
    \A j \in Derived :
        LET d == liquidity_costs[j] IN
        /\ d.effective_liquidity_cost >= d.spread_cost
        /\ (d.effective_liquidity_cost > d.spread_cost)
              <=> (d.is_itm /\ d.itm_discount > 0)
        /\ d.itm_discount = 0 => d.effective_liquidity_cost = d.spread_cost

C11_Witness ==
    /\ \E j \in Derived :
          /\ liquidity_costs[j].is_itm
          /\ liquidity_costs[j].itm_discount > 0
          /\ liquidity_costs[j].effective_liquidity_cost > liquidity_costs[j].spread_cost
    /\ \E j \in Derived :
          /\ QuoteOf(j).ask < QuoteOf(j).bid
          /\ liquidity_costs[j].spread_cost < 0
          /\ liquidity_costs[j].itm_discount = 0
          /\ liquidity_costs[j].effective_liquidity_cost = liquidity_costs[j].spread_cost

\* C27: every row whose option_type is not 'call' (a put, and also a row
\* ingested with no recognised side) is derived with the put formulas,
\* intrinsic_value = max(strike - spx_close, 0) and is_itm = (strike >
\* spx_close); no row is rejected or marked for its side: a row without a
\* side gets the derived row of the same quote as a put, but for its
\* option_type.
C27_NonCallDerivedAsPut ==
    /\ pc \in {"derive_start", "derive_loop", "derive_done"} => exc = "none"
    /\ Len(liquidity_costs) = k
    /\ pc = "derive_done" => Len(liquidity_costs) = Len(disk[ProcessedCsv].rows)
    /\ \A j \in Derived :
          LET q == QuoteOf(j)
              d == liquidity_costs[j]
          IN  q.option_type # "call" =>
                 /\ d.intrinsic_value =
                       (IF q.strike - q.spx_close > 0 THEN q.strike - q.spx_close ELSE 0)
                 /\ d.is_itm <=> q.strike > q.spx_close
                 /\ d.option_type = q.option_type
                 /\ \A l \in Derived :
                       QuoteOf(l) = [q EXCEPT !.option_type = "put"] =>
                           liquidity_costs[l] = [d EXCEPT !.option_type = "put"]

C27_Witness ==
    \E j, l \in Derived :
        /\ QuoteOf(j).option_type = None
        /\ QuoteOf(l) = [QuoteOf(j) EXCEPT !.option_type = "put"]
        /\ QuoteOf(j).strike > QuoteOf(j).spx_close
        /\ liquidity_costs[j].is_itm
        /\ liquidity_costs[j].intrinsic_value = QuoteOf(j).strike - QuoteOf(j).spx_close
        /\ liquidity_costs[j].intrinsic_value > 0
        /\ liquidity_costs[j].itm_discount > 0
        /\ liquidity_costs[l] = [liquidity_costs[j] EXCEPT !.option_type = "put"]

\* C30: for every derived quote with side call or put, is_itm holds exactly
\* when intrinsic_value > 0; itm_discount > 0 exactly when is_itm holds and
\* time_value < 0, and then itm_discount = -time_value; so itm_discount is
\* never negative and is 0 for every quote out of the money or at the
\* strike.
C30_ItmAndDiscount ==
    \A j \in Derived :
        LET q == QuoteOf(j)
            d == liquidity_costs[j]
        IN  IsSided(q) =>
               /\ d.is_itm <=> d.intrinsic_value > 0
               /\ d.itm_discount > 0 <=> (d.is_itm /\ d.time_value < 0)
               /\ d.itm_discount > 0 => d.itm_discount = - d.time_value
               /\ d.itm_discount >= 0
               /\ (q.option_type = "call" /\ q.strike >= q.spx_close) => d.itm_discount = 0
               /\ (q.option_type = "put" /\ q.strike <= q.spx_close) => d.itm_discount = 0

C30_Witness ==
    /\ \E j \in Derived :
          /\ IsSided(QuoteOf(j))
          /\ liquidity_costs[j].is_itm
          /\ liquidity_costs[j].time_value < 0
          /\ liquidity_costs[j].itm_discount = - liquidity_costs[j].time_value
    /\ \E j \in Derived :
          /\ IsSided(QuoteOf(j))
          /\ QuoteOf(j).strike = QuoteOf(j).spx_close
          /\ QuoteOf(j).lastPrice = 0
          /\ ~ liquidity_costs[j].is_itm
          /\ liquidity_costs[j].itm_discount = 0

----------------------------------------------------------------------------
(* Properties of the volume-weighted averages (stated for SpecDerive) *)

\* The explicit missing value of a report
Missing == <<>>

DerivationDone == pc \in {"derive_done", "analyzed", "visualized"}
Analyzed == pc \in {"analyzed", "visualized"}
Visualized == pc = "visualized"

\* C13: every group (overall; by date and side; by date, side and moneyness
\* category) whose total volume is 0 has its weighted average reported as
\* the explicit missing value: never 0, and never the result of evaluating
\* 0 / 0 that then flows into the later output.
C13_ZeroVolumeGroupMissing ==
    /\ (Analyzed /\ total_volume = 0) => weighted_avg_cost = Missing
    /\ Visualized =>
          \A key \in DOMAIN daily_by_type :
              daily_by_type[key].volume = 0 =>
                  daily_by_type[key].effective_liquidity_cost = Missing
    /\ Visualized =>
          \A key \in DOMAIN pivot_data :
              Sum(Column(CategoryGroup(liquidity_costs, key), "volume")) = 0 =>
                  pivot_data[key].effective_liquidity_cost = Missing

\* The quotes of a group all have the cost c
AllCost(rows, c) == \A n \in DOMAIN rows : rows[n].effective_liquidity_cost = c

\* The quotient q is the number c
RatioIs(q, c) == q[2] # 0 /\ q[1] = c * q[2]

\* C14: for a group with non-zero total volume whose quotes all have the
\* same effective liquidity cost c, the weighted average is c, whatever the
\* volumes are, quotes of volume 0 included.
C14_ConstantCostAverage ==
    /\ (Analyzed /\ total_volume # 0) =>
          \A n \in Derived :
              AllCost(liquidity_costs, liquidity_costs[n].effective_liquidity_cost)
                  => RatioIs(weighted_avg_cost,
                             liquidity_costs[n].effective_liquidity_cost)
    /\ Visualized =>
          \A key \in DOMAIN daily_by_type :
              LET g == DateTypeGroup(liquidity_costs, key) IN
              (daily_by_type[key].volume # 0 /\ AllCost(g, g[1].effective_liquidity_cost))
                  => RatioIs(daily_by_type[key].effective_liquidity_cost,
                             g[1].effective_liquidity_cost)
    /\ Visualized =>
          \A key \in DOMAIN pivot_data :
              LET g == CategoryGroup(liquidity_costs, key) IN
              (Sum(Column(g, "volume")) # 0 /\ AllCost(g, g[1].effective_liquidity_cost))
                  => RatioIs(pivot_data[key].effective_liquidity_cost,
                             g[1].effective_liquidity_cost)

C14_Witness ==
    /\ Visualized
    /\ \E key \in DOMAIN pivot_data :
          LET g == CategoryGroup(liquidity_costs, key) IN
          /\ Len(g) > 1
          /\ \E n \in DOMAIN g : g[n].volume = 0
          /\ \E n \in DOMAIN g : g[n].volume > 0
          /\ g[1].effective_liquidity_cost # 0
          /\ AllCost(g, g[1].effective_liquidity_cost)
          /\ RatioIs(pivot_data[key].effective_liquidity_cost,
                     g[1].effective_liquidity_cost)
          /\ RatioIs(daily_by_type[<<key[1], key[2]>>].effective_liquidity_cost,
                     g[1].effective_liquidity_cost)
          /\ RatioIs(weighted_avg_cost, g[1].effective_liquidity_cost)

----------------------------------------------------------------------------
(* Properties of the moneyness category (stated for SpecBand) *)

\* The moneyness of a quote, from its strike and close
MoneynessOf(q) == Ratio(q.strike - q.spx_close, q.spx_close)

\* C12: moneyness_category is ATM if |moneyness| < 0.005; otherwise it is
\* OTM_Call/ITM_Put for every moneyness >= 0.005 and ITM_Call/OTM_Put for
\* every moneyness <= -0.005.
C12_MoneynessCategory ==
    \A j \in Derived :
        LET m == MoneynessOf(QuoteOf(j))
            c == liquidity_costs[j].moneyness_category
        IN  /\ RatioLess(RatioAbs(m), Ratio(5, 1000)) => c = "ATM"
            /\ ~ RatioLess(m, Ratio(5, 1000)) => c = "OTM_Call/ITM_Put"
            /\ ~ RatioLess(Ratio(-5, 1000), m) => c = "ITM_Call/OTM_Put"

\* The derived row of a quote taken alone: the row the script appends when
\* the csv holds this quote and nothing else
DerivedAlone(q) == LiquidityRow(AddColumns([q EXCEPT !.date = to_datetime(@)]))

\* C26: row-wise derivation is stateless and order-independent: the derived
\* row at each position is the derived row of the quote at that position
\* taken alone, whatever other rows (of the same or of another date) stand
\* before or after it; so permuting, adding or removing rows permutes, adds
\* or removes derived rows and changes no other.
C26_RowWiseStateless ==
    /\ Len(liquidity_costs) = k
    /\ k <= Len(disk[ProcessedCsv].rows)
    /\ \A j \in Derived : liquidity_costs[j] = DerivedAlone(QuoteOf(j))
    /\ DerivationDone => Len(liquidity_costs) = Len(disk[ProcessedCsv].rows)

C26_Witness ==
    /\ DerivationDone
    /\ Len(liquidity_costs) = 2
    /\ QuoteOf(1).date # QuoteOf(2).date
    /\ QuoteOf(1).strike > QuoteOf(2).strike
    /\ QuoteOf(1).option_type = "put" /\ QuoteOf(2).option_type = "call"
    /\ liquidity_costs[1].is_itm /\ liquidity_costs[2].is_itm
    /\ liquidity_costs[1].intrinsic_value = QuoteOf(1).strike - QuoteOf(1).spx_close
    /\ liquidity_costs[2].intrinsic_value = QuoteOf(2).spx_close - QuoteOf(2).strike

----------------------------------------------------------------------------
(* scripts/analyze_data.py: SPXOptionsAnalyzer.__init__ and                *)
(* options_flow_analysis                                                   *)

\* The rows of the combined csv that the flow analysis reads
FlowQuotes ==
    [date : {<<2025, 2, 28>>, <<2025, 3, 3>>, <<2025, 3, 4>>},
     option_type : {"call", "put", None},
     volume : 0..MaxVolume,
     spx_close : {2}]

\* Ten dates whose call and put volumes add up to 10, 20, ..., 100, and a
\* row without a side
DecileTable ==
    [n \in 1..21 |->
        IF n = 21
        THEN [date |-> <<2025, 3, 3>>, option_type |-> None, volume |-> 1000,
              spx_close |-> 2]
        ELSE [date |-> <<2025, 3, (n + 1) \div 2>>,
              option_type |-> IF n % 2 = 1 THEN "call" ELSE "put",
              volume |-> IF n % 2 = 1 THEN 6 * ((n + 1) \div 2)
                                      ELSE 4 * ((n + 1) \div 2),
              spx_close |-> 2]]

InitFlow ==
    /\ \E t \in Tables(FlowQuotes, MaxFlowRows) \cup {DecileTable} :
          disk = (ProcessedCsv :> [readable |-> TRUE, rows |-> t])
    /\ csv_files = <<>>
    /\ i = 0
    /\ dataframes = <<>>
    /\ errors = <<>>
    /\ combined_df = <<>>
    /\ exc = "none"
    /\ pc = "flow_start"
    /\ df = <<>>
    /\ k = 0
    /\ liquidity_costs = <<>>
    /\ AnalysisIdle

\* lines 10-24: read the csv, parse the dates
LoadAnalyzer ==
    /\ pc = "flow_start"
    /\ flow_df' = [r \in DOMAIN disk[ProcessedCsv].rows |->
                      [disk[ProcessedCsv].rows[r] EXCEPT !.date = to_datetime(@)]]
    /\ pc' = "flow_loaded"
    /\ UNCHANGED <<disk, ingestVars, exc, deriveVars, reportVars, gapVars, gridVars,
                   total_daily_volume, high_vol_threshold, high_vol_days>>

\* lines 193-198: groupby(['date', 'option_type']) volume sums; the rows
\* without a side are in no group
daily_stats(rows) ==
    LET sided == SelectSeq(rows, LAMBDA r : r.option_type # None)
        keys == {<<sided[n].date, sided[n].option_type>> : n \in DOMAIN sided}
    IN  [key \in keys |->
            Sum(Column(SelectSeq(sided,
                    LAMBDA r : <<r.date, r.option_type>> = key), "volume"))]

\* line 201: groupby('date')['volume'].sum() over daily_stats
DailyTotals(stats) ==
    LET SideTotal(d, side) ==
            IF <<d, side>> \in DOMAIN stats THEN stats[<<d, side>>] ELSE 0
    IN  [d \in {key[1] : key \in DOMAIN stats} |->
            SideTotal(d, "call") + SideTotal(d, "put")]

\* The values of a Series in ascending order
RECURSIVE SortedValues(_)
SortedValues(series) ==
    IF DOMAIN series = {} THEN <<>>
    ELSE LET d == CHOOSE d \in DOMAIN series :
                      \A e \in DOMAIN series : series[d] <= series[e]
         IN  <<series[d]>>
                 \o SortedValues([e \in DOMAIN series \ {d} |-> series[e]])

\* line 202: Series.quantile(q), linear interpolation between the two
\* closest ranks; nan for an empty Series
quantile(series, q) ==
    LET v == SortedValues(series)
        pos == q[1] * (Len(v) - 1)
        lo == pos \div q[2]
        frac == pos % q[2]
    IN  IF Len(v) = 0 THEN NaN
        ELSE IF frac = 0 THEN Ratio(v[lo + 1], 1)
        ELSE Ratio(q[2] * v[lo + 1] + frac * (v[lo + 2] - v[lo + 1]), q[2])

\* A selection that keeps the dates at the threshold too
Exceeding_OrEqual(series, threshold) ==
    [d \in {e \in DOMAIN series : ~ RatioLess(Ratio(series[e], 1), threshold)}
        |-> series[d]]

\* line 203: total_daily_volume[total_daily_volume > high_vol_threshold]
Exceeding(series, threshold) ==
    [d \in {e \in DOMAIN series : RatioLess(threshold, Ratio(series[e], 1))}
        |-> series[d]]

\* lines 188-217
OptionsFlowAnalysis ==
    /\ pc = "flow_loaded"
    /\ total_daily_volume' = DailyTotals(daily_stats(flow_df))
    /\ high_vol_threshold' = quantile(total_daily_volume', Ratio(9, 10))
    /\ high_vol_days' = Exceeding(total_daily_volume', high_vol_threshold')
    /\ pc' = "flow_done"
    /\ UNCHANGED <<disk, ingestVars, exc, deriveVars, reportVars, gapVars, gridVars,
                   flow_df>>

NextFlow == LoadAnalyzer \/ OptionsFlowAnalysis

SpecFlow == InitFlow /\ [][NextFlow]_vars

----------------------------------------------------------------------------
(* Properties of the high-volume days (stated for SpecFlow) *)

FlowDone == pc = "flow_done"

\* The rows of the csv that are calls or puts, and their dates
SidedRows == SelectSeq(disk[ProcessedCsv].rows, LAMBDA r : r.option_type \in {"call", "put"})
TradedDates == {SidedRows[n].date : n \in DOMAIN SidedRows}

\* Calls plus puts of one date
DayTotal(d) == Sum(Column(SelectSeq(SidedRows, LAMBDA r : r.date = d), "volume"))

\* The k-th smallest of the per-date totals, counted with repetitions
KthTotal(kth) ==
    CHOOSE x \in {DayTotal(d) : d \in TradedDates} :
        /\ Cardinality({d \in TradedDates : DayTotal(d) < x}) < kth
        /\ kth <= Cardinality({d \in TradedDates : DayTotal(d) <= x})

\* Ten times the 90th percentile of the per-date totals: the rank
\* 0.9 * (n - 1) lies between two closest ranks, interpolated linearly
Percentile90x10 ==
    LET pos == 9 * (Cardinality(TradedDates) - 1)
        lo == pos \div 10
        frac == pos % 10
    IN  IF frac = 0 THEN 10 * KthTotal(lo + 1)
        ELSE 10 * KthTotal(lo + 1) + frac * (KthTotal(lo + 2) - KthTotal(lo + 1))

FlaggedDates == {timestamp_date(ts) : ts \in DOMAIN high_vol_days}

\* C15: the high-volume days are exactly the dates whose total daily volume
\* (calls plus puts) is strictly greater than the 90th percentile, linearly
\* interpolated between closest ranks, of the per-date totals; a date whose
\* total equals the threshold is not flagged; for the totals 10, 20, ...,
\* 100 the threshold is 91 and only the date with 100 is flagged.
C15_HighVolumeDays ==
    FlowDone =>
        /\ TradedDates # {} =>
              /\ high_vol_threshold[2] # 0
              /\ 10 * high_vol_threshold[1] = Percentile90x10 * high_vol_threshold[2]
              /\ FlaggedDates = {d \in TradedDates : 10 * DayTotal(d) > Percentile90x10}
              /\ \A d \in TradedDates :
                    10 * DayTotal(d) = Percentile90x10 => d \notin FlaggedDates
        /\ TradedDates = {} => FlaggedDates = {}
        /\ \A ts \in DOMAIN high_vol_days :
              high_vol_days[ts] = DayTotal(timestamp_date(ts))
        /\ disk[ProcessedCsv].rows = DecileTable =>
              /\ high_vol_threshold[1] = 91 * high_vol_threshold[2]
              /\ FlaggedDates = {<<2025, 3, 10>>}

C15_Witness ==
    /\ FlowDone
    /\ disk[ProcessedCsv].rows = DecileTable
    /\ {DayTotal(d) : d \in TradedDates} = {10 * n : n \in 1..10}
    /\ RatioIs(high_vol_threshold, 91)
    /\ FlaggedDates = {<<2025, 3, 10>>}
    /\ high_vol_days[to_datetime(<<2025, 3, 10>>)] = 100

----------------------------------------------------------------------------
(* scripts/spx_timeline_with_gaps.py *)

\* The rows of the combined csv that the timeline reads
GapQuotes ==
    [date : {<<2024, 2, 26>>, <<2024, 3, 1>>, <<2025, 5, 1>>, <<2025, 5, 5>>,
             <<2025, 5, 9>>, <<2025, 5, 14>>, <<2025, 5, 22>>},
     spx_close : {2, 4}]

InitGaps ==
    /\ \E t \in Tables(GapQuotes, MaxGapRows) :
          disk = (ProcessedCsv :> [readable |-> TRUE, rows |-> t])
    /\ csv_files = <<>>
    /\ i = 0
    /\ dataframes = <<>>
    /\ errors = <<>>
    /\ combined_df = <<>>
    /\ exc = "none"
    /\ pc = "gaps_start"
    /\ df = <<>>
    /\ k = 0
    /\ liquidity_costs = <<>>
    /\ AnalysisIdle

\* The numbers of a set in ascending order
RECURSIVE SortedSet(_)
SortedSet(S) ==
    IF S = {} THEN <<>> ELSE <<SetMin(S)>> \o SortedSet(S \ {SetMin(S)})

\* lines 12-17: groupby('date').agg({'spx_close': 'first'}).reset_index()
\* .sort_values('date') over the rows with parsed dates
DailyFirst(rows) ==
    LET ts == [n \in DOMAIN rows |-> to_datetime(rows[n].date)]
        keys == SortedSet({ts[n] : n \in DOMAIN rows})
    IN  [p \in DOMAIN keys |->
            [date |-> keys[p],
             spx_close |-> rows[SetMin({n \in DOMAIN rows : ts[n] = keys[p]})].spx_close]]

\* frame.iloc[idx], idx counted from 0
iloc(frame, idx) == frame[idx + 1]

\* line 24: Series.diff(), without its first element (NaT)
date_diffs(frame) ==
    [idx \in 1..(Len(frame) - 1) |-> iloc(frame, idx).date - iloc(frame, idx - 1).date]

\* pd.Timedelta(days=4)
GapThreshold == 4

\* A selection that takes a difference equal to the threshold as a gap
LargeGaps_OrEqual(diffs) ==
    [idx \in {n \in DOMAIN diffs : diffs[n] >= GapThreshold} |-> diffs[idx]]

\* line 25: date_diffs[date_diffs > pd.Timedelta(days=4)]
LargeGaps(diffs) ==
    [idx \in {n \in DOMAIN diffs : diffs[n] > GapThreshold} |-> diffs[idx]]

\* A gap line that names the first date of the timeline as the earlier date
GapLine_FromFirst(frame, idx, gap) ==
    [days |-> gap,
     prev_date |-> timestamp_date(iloc(frame, 0).date),
     curr_date |-> timestamp_date(iloc(frame, idx).date)]

\* lines 28-31: the line printed for the gap at idx
GapLine(frame, idx, gap) ==
    [days |-> gap,
     prev_date |-> timestamp_date(iloc(frame, idx - 1).date),
     curr_date |-> timestamp_date(iloc(frame, idx).date)]

\* lines 11-21
LoadTimeline ==
    /\ pc = "gaps_start"
    /\ daily_data' = DailyFirst(disk[ProcessedCsv].rows)
    /\ pc' = "gaps_loaded"
    /\ UNCHANGED <<disk, ingestVars, exc, deriveVars, reportVars, flowVars, gridVars,
                   large_gaps, gap_lines, monthly_counts>>

\* lines 24-31
IdentifyGaps ==
    /\ pc = "gaps_loaded"
    /\ large_gaps' = LargeGaps(date_diffs(daily_data))
    /\ gap_lines' =
          LET order == SortedSet(DOMAIN large_gaps')
          IN  [p \in DOMAIN order |->
                  GapLine(daily_data, order[p], large_gaps'[order[p]])]
    /\ pc' = "gaps_found"
    /\ UNCHANGED <<disk, ingestVars, exc, deriveVars, reportVars, flowVars, gridVars,
                   daily_data, monthly_counts>>

\* lines 33-95: the plot; the month column and the dates per month.  The
\* summary text of line 83 formats the least date: NaT.strftime raises when
\* there is no date at all.
PlotTimeline ==
    /\ pc = "gaps_found"
    /\ daily_data' =
          [p \in DOMAIN daily_data |->
              [date |-> daily_data[p].date,
               spx_close |-> daily_data[p].spx_close,
               month |-> SubSeq(timestamp_date(daily_data[p].date), 1, 2)]]
    /\ monthly_counts' =
          [mon \in {daily_data'[p].month : p \in DOMAIN daily_data} |->
              Cardinality({p \in DOMAIN daily_data : daily_data'[p].month = mon})]
    /\ IF daily_data = <<>>
       THEN exc' = "ValueError" /\ pc' = "raised"
       ELSE exc' = exc /\ pc' = "gaps_plotted"
    /\ UNCHANGED <<disk, ingestVars, deriveVars, reportVars, flowVars, gridVars,
                   large_gaps, gap_lines>>

NextGaps == LoadTimeline \/ IdentifyGaps \/ PlotTimeline

SpecGaps == InitGaps /\ [][NextGaps]_vars

----------------------------------------------------------------------------
(* Properties of the gap report (stated for SpecGaps) *)

GapsFound == pc \in {"gaps_found", "gaps_plotted"} \/ (pc = "raised" /\ daily_data = <<>>)

\* The number of the day of a date, counted through the calendar from
\* 2000-01-01
RECURSIVE DaysBeforeYear(_)
DaysBeforeYear(y) ==
    IF y <= 2000 THEN 0
    ELSE DaysBeforeYear(y - 1) + (IF IsLeap(y - 1) THEN 366 ELSE 365)

RECURSIVE DaysBeforeMonth(_, _)
DaysBeforeMonth(y, m) ==
    IF m <= 1 THEN 0 ELSE DaysBeforeMonth(y, m - 1) + DaysInMonth(y, m - 1)

DayNumber(date) == DaysBeforeYear(date[1]) + DaysBeforeMonth(date[1], date[2]) + date[3]

\* The distinct dates of the csv, and the pairs of successive ones
CsvDates == {disk[ProcessedCsv].rows[n].date : n \in DOMAIN disk[ProcessedCsv].rows}

Successive(a, b) ==
    /\ DayNumber(a) < DayNumber(b)
    /\ ~ \E c \in CsvDates : DayNumber(a) < DayNumber(c) /\ DayNumber(c) < DayNumber(b)

ReportedGaps ==
    {<<gap_lines[p].prev_date, gap_lines[p].curr_date, gap_lines[p].days>> :
        p \in DOMAIN gap_lines}

\* C19: over the sorted distinct dates, a gap is reported for every pair of
\* successive dates whose difference is strictly greater than the threshold
\* of 4 calendar days and for no pair whose difference is at most the
\* threshold; the dates 2025-05-05 and 2025-05-22 give exactly one gap, of
\* 17 days.
C19_GapsBeyondThreshold ==
    GapsFound =>
        /\ ReportedGaps =
              {<<a, b, DayNumber(b) - DayNumber(a)>> :
                  <<a, b>> \in {pr \in CsvDates \X CsvDates :
                                  /\ Successive(pr[1], pr[2])
                                  /\ DayNumber(pr[2]) - DayNumber(pr[1]) > 4}}
        /\ Len(gap_lines) = Cardinality(ReportedGaps)
        /\ CsvDates = {<<2025, 5, 5>>, <<2025, 5, 22>>} =>
              gap_lines = <<[days |-> 17, prev_date |-> <<2025, 5, 5>>,
                             curr_date |-> <<2025, 5, 22>>]>>

C19_Witness ==
    /\ GapsFound
    /\ CsvDates = {<<2025, 5, 1>>, <<2025, 5, 5>>, <<2025, 5, 22>>}
    /\ DayNumber(<<2025, 5, 5>>) - DayNumber(<<2025, 5, 1>>) = 4
    /\ gap_lines = <<[days |-> 17, prev_date |-> <<2025, 5, 5>>,
                      curr_date |-> <<2025, 5, 22>>]>>

\* C29: every reported gap names two dates that are adjacent in the sorted
\* sequence of distinct trade dates, the later one after the earlier one,
\* and its length is their difference in days; the first date never starts
\* a report (no gap ends at it), so n distinct dates give at most n - 1
\* gaps.
C29_GapsNameAdjacentDates ==
    GapsFound =>
        /\ \A p \in DOMAIN gap_lines :
              LET g == gap_lines[p] IN
              /\ g.prev_date \in CsvDates
              /\ g.curr_date \in CsvDates
              /\ Successive(g.prev_date, g.curr_date)
              /\ g.days = DayNumber(g.curr_date) - DayNumber(g.prev_date)
              /\ g.days > 0
              /\ \E d \in CsvDates : DayNumber(d) < DayNumber(g.curr_date)
        /\ \A idx \in DOMAIN large_gaps : idx >= 1 /\ idx <= Len(daily_data) - 1
        /\ Len(gap_lines) = Cardinality(DOMAIN large_gaps)
        /\ CsvDates # {} => Len(gap_lines) <= Cardinality(CsvDates) - 1
        /\ CsvDates = {} => gap_lines = <<>>

C29_Witness ==
    /\ GapsFound
    /\ CsvDates = {<<2025, 5, 1>>, <<2025, 5, 14>>, <<2025, 5, 22>>}
    /\ disk[ProcessedCsv].rows[1].date = <<2025, 5, 22>>
    /\ gap_lines = <<[days |-> 13, prev_date |-> <<2025, 5, 1>>,
                       curr_date |-> <<2025, 5, 14>>],
                     [days |-> 8, prev_date |-> <<2025, 5, 14>>,
                       curr_date |-> <<2025, 5, 22>>]>>

----------------------------------------------------------------------------
(* The 3D visualizers: scripts/interactive_3d.py, scripts/spx_based_3d.py  *)
(* and scripts/visualize_3d.py.  Prices and strikes are whole dollars,     *)
(* impliedVolatility is in percent; the floats of a grid are kept as exact *)
(* quotients.  `surface` is what the last builder that returned has drawn. *)

\* The close of each date of the grid inputs
GridSpx(date) == IF date = <<2025, 3, 12>> THEN 5100 ELSE 5000

\* The rows of the combined csv that the visualizers read
GridQuotes ==
    {[date |-> d, option_type |-> t, strike |-> st, spx_close |-> GridSpx(d),
      lastPrice |-> l, impliedVolatility |-> 10 * l] :
        d \in {<<2025, 3, 10>>, <<2025, 3, 11>>, <<2025, 3, 12>>},
        t \in {"call", "put"},
        st \in {5000, 5010, 5300},
        l \in {1, 2}}

InitGrid ==
    /\ \E t \in Tables(GridQuotes, MaxGridRows) :
          disk = (ProcessedCsv :> [readable |-> TRUE, rows |-> t])
    /\ csv_files = <<>>
    /\ i = 0
    /\ dataframes = <<>>
    /\ errors = <<>>
    /\ combined_df = <<>>
    /\ exc = "none"
    /\ pc = "grid_start"
    /\ df = <<>>
    /\ k = 0
    /\ liquidity_costs = <<>>
    /\ AnalysisIdle

\* sort_values(['date', 'strike']): rows with equal keys keep their order
DateStrikeLeq(a, b) == a.date < b.date \/ (a.date = b.date /\ a.strike <= b.strike)

RECURSIVE SortByDateStrike(_)
SortByDateStrike(rows) ==
    IF rows = <<>> THEN <<>>
    ELSE LET first == SetMin({n \in DOMAIN rows :
                                 \A m \in DOMAIN rows : DateStrikeLeq(rows[n], rows[m])})
         IN  <<rows[first]>>
             \o SortByDateStrike(SubSeq(rows, 1, first - 1)
                                    \o SubSeq(rows, first + 1, Len(rows)))

\* __init__ of the three visualizers: read_csv, to_datetime, sort_values
LoadVisualizer ==
    /\ pc = "grid_start"
    /\ grid_df' =
          SortByDateStrike([r \in DOMAIN disk[ProcessedCsv].rows |->
              [disk[ProcessedCsv].rows[r] EXCEPT !.date = to_datetime(@)]])
    /\ pc' = "grid_loaded"
    /\ UNCHANGED <<disk, ingestVars, exc, deriveVars, reportVars, flowVars,
                   gapVars, surface>>

\* A float that holds a whole number
Float(n) == Ratio(n, 1)

RECURSIVE GCD(_, _)
GCD(a, b) == IF b = 0 THEN a ELSE GCD(b, a % b)

\* The float of a quotient: two quotients of the same value are one float
Norm(r) ==
    IF r[1] = 0 THEN Ratio(0, 1)
    ELSE Ratio(r[1] \div GCD(Abs(r[1]), r[2]), r[2] \div GCD(Abs(r[1]), r[2]))

RatioSub(a, b) == Norm(Ratio(a[1] * b[2] - b[1] * a[2], a[2] * b[2]))
RatioLeq(a, b) == a[1] * b[2] <= b[1] * a[2]

\* sorted() of a set of floats
RECURSIVE SortedRatios(_)
SortedRatios(S) ==
    IF S = {} THEN <<>>
    ELSE LET least == CHOOSE x \in S : \A y \in S : RatioLeq(x, y)
         IN  <<least>> \o SortedRatios(S \ {least})

\* data[data['option_type'] == option_type]
OfSide(rows, option_type) == SelectSeq(rows, LAMBDA r : r.option_type = option_type)

\* sorted(data['date'].unique())
UniqueDates(rows) == SortedSet({rows[n].date : n \in DOMAIN rows})

\* unique_dates[::step]
EveryNth(seq, step) ==
    [p \in 1..((Len(seq) + step - 1) \div step) |-> seq[(p - 1) * step + 1]]

\* data[data['date'].isin(sample_dates)] and data[data['date'] == date]
OnDates(rows, dates) ==
    SelectSeq(rows, LAMBDA r : r.date \in {dates[p] : p \in DOMAIN dates})
OnDate(rows, date) == SelectSeq(rows, LAMBDA r : r.date = date)

\* The rows that a surface is drawn from: one side, the sampled dates
Sampled(rows, option_type, step) ==
    OnDates(OfSide(rows, option_type),
            EveryNth(UniqueDates(OfSide(rows, option_type)), step))

\* An overlay that reads the first row of the whole table for every date
spx_prices_FirstRow(data, dates) ==
    [p \in DOMAIN dates |-> data[1].spx_close]

\* The overlay: for each date the spx_close of its first row
spx_prices(data, dates) ==
    [p \in DOMAIN dates |-> OnDate(data, dates[p])[1].spx_close]

\* A cell that takes the last row of the date at the strike
ExactCell_LastMatch(date_data, strike, metric) ==
    LET strike_data == SelectSeq(date_data, LAMBDA r : r.strike = strike)
    IN  IF strike_data # <<>> THEN Float(strike_data[Len(strike_data)][metric])
        ELSE NaN

\* The cell of an exact-match grid: the metric column (lastPrice or
\* impliedVolatility) of the first row of the date at the strike
ExactCell(date_data, strike, metric) ==
    LET strike_data == SelectSeq(date_data, LAMBDA r : r.strike = strike)
    IN  IF strike_data # <<>> THEN Float(strike_data[1][metric]) ELSE NaN

\* (frame[column] - value).abs(): the distance of every row of the frame
Distances(date_data, column, value) ==
    [n \in DOMAIN date_data |-> RatioAbs(RatioSub(date_data[n][column], value))]

SetMax(S) == CHOOSE x \in S : \A y \in S : y <= x

\* frame.iloc[distances.argsort()[:1]]: a row at the least distance.
\* argsort sorts with kind='quicksort', which is not stable: among rows at
\* the same distance the one that comes first is not determined.  Of the
\* orders a sort can give, two are kept: the stable one (the first of the
\* tied rows) and its reverse on ties (the last of them).
Closest(date_data, distances, stable) ==
    LET tied == {n \in DOMAIN date_data :
                    \A m \in DOMAIN date_data :
                        RatioLeq(distances[n], distances[m])}
    IN  date_data[IF stable THEN SetMin(tied) ELSE SetMax(tied)]

\* The cells Z[j, i] of np.full((len(axis), len(dates)), np.nan)
Cells(axis, dates) == (DOMAIN axis) \X (DOMAIN dates)

\* What a builder hands to the plotting library: the grid and the overlay
\* line, one value per date (the builder's spx_prices list; on the moneyness
\* surface of interactive_3d.py the list [0] * len(date_indices))
Surface(kind, option_type, dates, axis, Z, baseline) ==
    [kind |-> kind, option_type |-> option_type, dates |-> dates,
     axis |-> axis, Z |-> Z, spx_prices |-> baseline]

\* np.linspace(a, b, num) over two floats
Linspace(a, b, num) ==
    LET step == RatioSub(b, a)
    IN  [j \in 1..num |->
            RatioSub(a, Ratio((1 - j) * step[1], step[2] * (num - 1)))]

\* The sampling steps a builder is called with: the bounded ones, and the
\* default of its signature
SampleSteps(default) == (1..MaxSampleEvery) \cup {default}

\* interactive_3d.py lines 375-403, main(): where the script is, the builder
\* it calls there with which side and step, and where it is after the call
InteractiveMain(at, builder, option_type, sample_every, then) ==
    \/ /\ at = "grid_loaded"
       /\ builder = "create_interactive_price_surface"
       /\ option_type = "call" /\ sample_every = 3
       /\ then = "interactive_1"
    \/ /\ at = "interactive_1"
       /\ builder = "create_interactive_price_surface"
       /\ option_type = "put" /\ sample_every = 3
       /\ then = "interactive_2"
    \/ /\ at = "interactive_2"
       /\ builder = "create_interactive_iv_surface"
       /\ option_type = "call" /\ sample_every = 3
       /\ then = "interactive_3"
    \/ /\ at = "interactive_3"
       /\ builder = "create_combined_interactive_surface"
       /\ option_type = "both" /\ sample_every = 4
       /\ then = "interactive_4"
    \/ /\ at = "interactive_4"
       /\ builder = "create_moneyness_surface"
       /\ option_type = "call" /\ sample_every = 3
       /\ then = "grid_done"

\* visualize_3d.py lines 260-278, main(): the builders sample every 5th
\* date, the combined one every 7th
VisualizeMain(at, builder, option_type, sample_every, then) ==
    \/ /\ at = "grid_loaded"
       /\ builder = "create_3d_price_surface"
       /\ option_type = "call" /\ sample_every = 5
       /\ then = "visualize_1"
    \/ /\ at = "visualize_1"
       /\ builder = "create_3d_price_surface"
       /\ option_type = "put" /\ sample_every = 5
       /\ then = "visualize_2"
    \/ /\ at = "visualize_2"
       /\ builder = "create_3d_iv_surface"
       /\ option_type = "call" /\ sample_every = 5
       /\ then = "visualize_3"
    \/ /\ at = "visualize_3"
       /\ builder = "create_combined_3d_surface"
       /\ option_type = "both" /\ sample_every = 7
       /\ then = "grid_done"

\* Where a script can be after a call of a builder has returned
GridPositions ==
    {"grid_done", "interactive_1", "interactive_2", "interactive_3",
     "interactive_4", "visualize_1", "visualize_2", "visualize_3"}

\* The calls of a builder: by main() of interactive_3d.py or visualize_3d.py
\* at the place the script has reached, or by a caller that has constructed
\* the visualizer and calls this one builder with arguments of its choice
\* (main() of spx_based_3d.py is such a caller of create_spx_based_surface,
\* with option_type='call' and sample_every=1)
Called(builder, option_type, sample_every, then) ==
    \/ pc = "grid_loaded" /\ then = "grid_done"
    \/ InteractiveMain(pc, builder, option_type, sample_every, then)
    \/ VisualizeMain(pc, builder, option_type, sample_every, then)

OtherVarsOfGrid == <<disk, ingestVars, deriveVars, reportVars, flowVars, gapVars, grid_df>>

\* interactive_3d.py lines 24-110: create_interactive_price_surface.
\* np.nanmax raises on a grid without cells.
CreateInteractivePriceSurface ==
    /\ \E option_type \in {"call", "put"}, sample_every \in SampleSteps(3),
          then \in GridPositions :
          /\ Called("create_interactive_price_surface", option_type,
                    sample_every, then)
          /\ LET data == Sampled(grid_df, option_type, sample_every)
                 dates == UniqueDates(data)
                 strikes == SortedSet({data[n].strike : n \in DOMAIN data})
             IN  IF data = <<>>
                 THEN /\ exc' = "ValueError"
                      /\ pc' = "raised"
                      /\ UNCHANGED surface
                 ELSE /\ surface' =
                            Surface("price", option_type, dates, strikes,
                                    [c \in Cells(strikes, dates) |->
                                        ExactCell(OnDate(data, dates[c[2]]),
                                                  strikes[c[1]], "lastPrice")],
                                    spx_prices(data, dates))
                      /\ pc' = then
                      /\ UNCHANGED exc
    /\ UNCHANGED OtherVarsOfGrid

\* interactive_3d.py lines 112-195: create_interactive_iv_surface, the same
\* grid over the impliedVolatility column
CreateInteractiveIvSurface ==
    /\ \E option_type \in {"call", "put"}, sample_every \in SampleSteps(3),
          then \in GridPositions :
          /\ Called("create_interactive_iv_surface", option_type,
                    sample_every, then)
          /\ LET data == Sampled(grid_df, option_type, sample_every)
                 dates == UniqueDates(data)
                 strikes == SortedSet({data[n].strike : n \in DOMAIN data})
             IN  IF data = <<>>
                 THEN /\ exc' = "ValueError"
                      /\ pc' = "raised"
                      /\ UNCHANGED surface
                 ELSE /\ surface' =
                            Surface("iv", option_type, dates, strikes,
                                    [c \in Cells(strikes, dates) |->
                                        ExactCell(OnDate(data, dates[c[2]]),
                                                  strikes[c[1]],
                                                  "impliedVolatility")],
                                    spx_prices(data, dates))
                      /\ pc' = then
                      /\ UNCHANGED exc
    /\ UNCHANGED OtherVarsOfGrid

\* The surface of the two combined builders: the dates and strikes of both
\* sides, one exact-match grid per side (Z for the calls, Z_put for the
\* puts), the overlay over the rows of both sides.  The grid of a side
\* without rows is all nan; nothing is reduced over a grid, nothing raises.
CombinedSurface(kind, data) ==
    LET dates == UniqueDates(data)
        strikes == SortedSet({data[n].strike : n \in DOMAIN data})
    IN  [kind |-> kind, option_type |-> "both", dates |-> dates,
         axis |-> strikes,
         Z |-> [c \in Cells(strikes, dates) |->
                   ExactCell(OnDate(OfSide(data, "call"), dates[c[2]]),
                             strikes[c[1]], "lastPrice")],
         Z_put |-> [c \in Cells(strikes, dates) |->
                       ExactCell(OnDate(OfSide(data, "put"), dates[c[2]]),
                                 strikes[c[1]], "lastPrice")],
         spx_prices |-> spx_prices(data, dates)]

\* interactive_3d.py lines 197-287: create_combined_interactive_surface
CreateCombinedInteractiveSurface ==
    /\ \E sample_every \in SampleSteps(4), then \in GridPositions :
          /\ Called("create_combined_interactive_surface", "both",
                    sample_every, then)
          /\ surface' =
                CombinedSurface("combined",
                    OnDates(grid_df, EveryNth(UniqueDates(grid_df), sample_every)))
          /\ pc' = then
    /\ UNCHANGED exc
    /\ UNCHANGED OtherVarsOfGrid

\* visualize_3d.py lines 24-98: create_3d_price_surface with the default
\* sample_dates, every 5th date.  max() raises on a grid without values.
Create3dPriceSurface ==
    /\ \E option_type \in {"call", "put"}, then \in GridPositions :
          /\ Called("create_3d_price_surface", option_type, 5, then)
          /\ LET data == Sampled(grid_df, option_type, 5)
                 dates == UniqueDates(data)
                 strikes == SortedSet({data[n].strike : n \in DOMAIN data})
             IN  IF data = <<>>
                 THEN /\ exc' = "ValueError"
                      /\ pc' = "raised"
                      /\ UNCHANGED surface
                 ELSE /\ surface' =
                            Surface("price_png", option_type, dates, strikes,
                                    [c \in Cells(strikes, dates) |->
                                        ExactCell(OnDate(data, dates[c[2]]),
                                                  strikes[c[1]], "lastPrice")],
                                    spx_prices(data, dates))
                      /\ pc' = then
                      /\ UNCHANGED exc
    /\ UNCHANGED OtherVarsOfGrid

\* visualize_3d.py lines 100-174: create_3d_iv_surface with the default
\* sample_dates.  np.nanmax raises on a grid without cells.
Create3dIvSurface ==
    /\ \E option_type \in {"call", "put"}, then \in GridPositions :
          /\ Called("create_3d_iv_surface", option_type, 5, then)
          /\ LET data == Sampled(grid_df, option_type, 5)
                 dates == UniqueDates(data)
                 strikes == SortedSet({data[n].strike : n \in DOMAIN data})
             IN  IF data = <<>>
                 THEN /\ exc' = "ValueError"
                      /\ pc' = "raised"
                      /\ UNCHANGED surface
                 ELSE /\ surface' =
                            Surface("iv_png", option_type, dates, strikes,
                                    [c \in Cells(strikes, dates) |->
                                        ExactCell(OnDate(data, dates[c[2]]),
                                                  strikes[c[1]],
                                                  "impliedVolatility")],
                                    spx_prices(data, dates))
                      /\ pc' = then
                      /\ UNCHANGED exc
    /\ UNCHANGED OtherVarsOfGrid

\* visualize_3d.py lines 176-258: create_combined_3d_surface with the
\* default sample_dates, every 7th date
CreateCombined3dSurface ==
    /\ \E then \in GridPositions :
          /\ Called("create_combined_3d_surface", "both", 7, then)
          /\ surface' =
                CombinedSurface("combined_png",
                    OnDates(grid_df, EveryNth(UniqueDates(grid_df), 7)))
          /\ pc' = then
    /\ UNCHANGED exc
    /\ UNCHANGED OtherVarsOfGrid

\* interactive_3d.py line 299: the moneyness column
WithMoneyness(rows) ==
    [n \in DOMAIN rows |->
        [c \in DOMAIN rows[n] \cup {"moneyness"} |->
            IF c = "moneyness"
            THEN Norm(Ratio(rows[n].strike - rows[n].spx_close, rows[n].spx_close))
            ELSE rows[n][c]]]

\* interactive_3d.py line 323: the literal 0.005
SnapTolerance == Ratio(5, 1000)

\* interactive_3d.py lines 321-324
MoneynessCell(date_data, moneyness, stable) ==
    LET closest_data ==
            Closest(date_data, Distances(date_data, "moneyness", moneyness), stable)
    IN  IF RatioLess(RatioAbs(RatioSub(closest_data.moneyness, moneyness)),
                     SnapTolerance)
        THEN Float(closest_data.lastPrice)
        ELSE NaN

\* interactive_3d.py lines 289-373: create_moneyness_surface; the axis keeps
\* the moneyness values with -0.1 <= m <= 0.1 (line 308).  It builds no
\* spx_prices list: its overlay is the ATM line of lines 338-349,
\* y = [0] * len(date_indices), moneyness 0 at every date.  np.nanmax raises
\* on a grid without cells.
CreateMoneynessSurface ==
    /\ \E option_type \in {"call", "put"}, sample_every \in SampleSteps(3),
          then \in GridPositions, stable \in BOOLEAN :
          /\ Called("create_moneyness_surface", option_type, sample_every, then)
          /\ LET data == WithMoneyness(Sampled(grid_df, option_type, sample_every))
                 dates == UniqueDates(data)
                 moneyness_values ==
                     SelectSeq(SortedRatios({data[n].moneyness : n \in DOMAIN data}),
                               LAMBDA m : RatioLeq(Ratio(-1, 10), m)
                                              /\ RatioLeq(m, Ratio(1, 10)))
             IN  IF dates = <<>> \/ moneyness_values = <<>>
                 THEN /\ exc' = "ValueError"
                      /\ pc' = "raised"
                      /\ UNCHANGED surface
                 ELSE /\ surface' =
                            Surface("moneyness", option_type, dates, moneyness_values,
                                    [c \in Cells(moneyness_values, dates) |->
                                        MoneynessCell(OnDate(data, dates[c[2]]),
                                                      moneyness_values[c[1]], stable)],
                                    [p \in DOMAIN dates |-> 0])
                      /\ pc' = then
                      /\ UNCHANGED exc
    /\ UNCHANGED OtherVarsOfGrid

\* spx_based_3d.py lines 56-68 and 162-173: the close of the date plus the
\* premium of the closest quote
PremiumCell(date_data, distances, stable) ==
    Float(date_data[1].spx_close + Closest(date_data, distances, stable).lastPrice)

\* The strike and moneyness_dollars columns as floats
WithDollars(rows) ==
    [n \in DOMAIN rows |->
        [c \in DOMAIN rows[n] \cup {"moneyness_dollars"} |->
            IF c = "moneyness_dollars" THEN Float(rows[n].strike - rows[n].spx_close)
            ELSE IF c = "strike" THEN Float(rows[n].strike)
            ELSE rows[n][c]]]

\* spx_based_3d.py lines 22-132: create_spx_based_surface.  sample_dates[0]
\* raises when the side has no rows.
CreateSpxBasedSurface ==
    /\ \E option_type \in {"call", "put"}, sample_every \in SampleSteps(3),
          show_all_dates \in BOOLEAN, stable \in BOOLEAN :
          /\ Called("create_spx_based_surface", option_type, sample_every,
                    "grid_done")
          /\ LET data == Sampled(grid_df, option_type,
                                 IF show_all_dates THEN 1 ELSE sample_every)
                 dates == UniqueDates(data)
                 closes == {data[n].spx_close : n \in DOMAIN data}
                 spx_range == Linspace(Norm(Ratio(95 * SetMin(closes), 100)),
                                       Norm(Ratio(105 * SetMax(closes), 100)), 50)
             IN  IF data = <<>>
                 THEN /\ exc' = "IndexError"
                      /\ pc' = "raised"
                      /\ UNCHANGED surface
                 ELSE /\ surface' =
                            Surface("spx_level", option_type, dates, spx_range,
                                    [c \in Cells(spx_range, dates) |->
                                        LET date_data ==
                                                WithDollars(OnDate(data, dates[c[2]]))
                                        IN  PremiumCell(date_data,
                                                Distances(date_data, "strike",
                                                          spx_range[c[1]]),
                                                stable)],
                                    spx_prices(data, dates))
                      /\ pc' = "grid_done"
                      /\ UNCHANGED exc
    /\ UNCHANGED OtherVarsOfGrid

\* spx_based_3d.py line 153: the ends of np.linspace(-200, 200, 41)
DollarAxisLow == -200
DollarAxisHigh == 200

\* spx_based_3d.py lines 134-227: create_moneyness_spx_surface
CreateMoneynessSpxSurface ==
    /\ \E option_type \in {"call", "put"}, sample_every \in SampleSteps(3),
          stable \in BOOLEAN :
          /\ Called("create_moneyness_spx_surface", option_type, sample_every,
                    "grid_done")
          /\ LET data == Sampled(grid_df, option_type, sample_every)
                 dates == UniqueDates(data)
                 moneyness_range ==
                     Linspace(Float(DollarAxisLow), Float(DollarAxisHigh), 41)
             IN  surface' =
                     Surface("spx_dollars", option_type, dates, moneyness_range,
                             [c \in Cells(moneyness_range, dates) |->
                                 LET date_data ==
                                         WithDollars(OnDate(data, dates[c[2]]))
                                 IN  PremiumCell(date_data,
                                         Distances(date_data, "moneyness_dollars",
                                                   moneyness_range[c[1]]),
                                         stable)],
                             spx_prices(data, dates))
    /\ pc' = "grid_done"
    /\ UNCHANGED exc
    /\ UNCHANGED OtherVarsOfGrid

\* spx_based_3d.py lines 246-260: the fan of one date, a point per strike of
\* the date at the close plus the lastPrice of the first row at the strike
Fan(date_data) ==
    LET strikes == SortedSet({date_data[n].strike : n \in DOMAIN date_data})
    IN  [prices |-> strikes,
         z_values |-> [j \in DOMAIN strikes |->
                          date_data[1].spx_close
                          + SelectSeq(date_data,
                                      LAMBDA r : r.strike = strikes[j])[1].lastPrice]]

\* spx_based_3d.py lines 229-320: create_simple_spx_extension draws no grid
\* but one fan per date and the baseline; without dates it draws nothing
CreateSimpleSpxExtension ==
    /\ \E option_type \in {"call", "put"}, sample_every \in SampleSteps(4) :
          /\ Called("create_simple_spx_extension", option_type, sample_every,
                    "grid_done")
          /\ LET data == Sampled(grid_df, option_type, sample_every)
                 dates == UniqueDates(data)
             IN  surface' =
                     [kind |-> "simple", option_type |-> option_type,
                      dates |-> dates, axis |-> <<>>, Z |-> <<>>,
                      fans |-> [p \in DOMAIN dates |-> Fan(OnDate(data, dates[p]))],
                      spx_prices |-> spx_prices(data, dates)]
    /\ pc' = "grid_done"
    /\ UNCHANGED exc
    /\ UNCHANGED OtherVarsOfGrid

NextGrid ==
    \/ LoadVisualizer
    \/ CreateInteractivePriceSurface
    \/ CreateInteractiveIvSurface
    \/ CreateCombinedInteractiveSurface
    \/ CreateMoneynessSurface
    \/ Create3dPriceSurface
    \/ Create3dIvSurface
    \/ CreateCombined3dSurface
    \/ CreateSpxBasedSurface
    \/ CreateMoneynessSpxSurface
    \/ CreateSimpleSpxExtension

SpecGrid == InitGrid /\ [][NextGrid]_vars

----------------------------------------------------------------------------
(* Properties of the surface grids (stated for SpecGrid) *)

\* A builder has returned a surface; it stays the last one built when a
\* later builder raises
HasSurface == DOMAIN surface # {}

\* The quotes of the csv that belong to column i of the surface: the date
\* of the column and the side of the surface (either side for a combined
\* surface), in csv order
ColumnQuotes(col) ==
    SelectSeq(disk[ProcessedCsv].rows,
              LAMBDA q : /\ q.date = timestamp_date(surface.dates[col])
                         /\ surface.option_type \in {q.option_type, "both"})

\* The key that a quote is matched by on the axis of the surface
KeyOf(q) ==
    CASE surface.kind = "moneyness" -> Ratio(q.strike - q.spx_close, q.spx_close)
      [] surface.kind = "spx_dollars" -> Ratio(q.strike - q.spx_close, 1)
      [] OTHER -> Ratio(q.strike, 1)

\* The value of the axis at row j, as a quotient (a strike axis holds whole
\* numbers)
AxisValue(j) ==
    IF surface.kind \in {"price", "price_png", "iv", "iv_png", "combined",
                         "combined_png"}
    THEN Ratio(surface.axis[j], 1)
    ELSE surface.axis[j]

\* |a - b| < t and a = b for quotients, by cross-multiplication
Apart(a, b) == Ratio(Abs(a[1] * b[2] - b[1] * a[2]), a[2] * b[2])
SameValue(a, b) == a[1] * b[2] = b[1] * a[2]

\* The tolerance of a nearest-match axis: 0.005 on the moneyness axis; on the
\* two dollar axes the widest one that means anything, the whole width of
\* the dollars-from-SPX axis
ToleranceOf(kind) ==
    IF kind = "moneyness" THEN Ratio(5, 1000)
    ELSE Ratio(DollarAxisHigh - DollarAxisLow, 1)

\* The closest quote of column col is within the tolerance of axis value a
ClosestWithin(col, a) ==
    \E n \in DOMAIN ColumnQuotes(col) :
        RatioLess(Apart(KeyOf(ColumnQuotes(col)[n]), a), ToleranceOf(surface.kind))

\* C16: in every nearest-match grid (moneyness axis, SPX price-level axis,
\* dollars-from-SPX axis) a cell holds a metric only if the closest quote of
\* its date is within the tolerance of its axis value; otherwise it holds
\* the missing sentinel.
C16_CellWithinTolerance ==
    (HasSurface /\ surface.kind \in {"moneyness", "spx_level", "spx_dollars"}) =>
        \A c \in DOMAIN surface.Z :
            surface.Z[c] # NaN => ClosestWithin(c[2], AxisValue(c[1]))

\* The overlay has one value per grid date and at every date it is the
\* spx_close of every quote of the column
BaselineIsClose ==
    /\ Len(surface.spx_prices) = Len(surface.dates)
    /\ \A col \in DOMAIN surface.dates :
          /\ ColumnQuotes(col) # <<>>
          /\ \A n \in DOMAIN ColumnQuotes(col) :
                surface.spx_prices[col] = ColumnQuotes(col)[n].spx_close

\* C17 as stated: in every surface the overlay baseline has exactly one
\* value per grid date, the spx_close of the quotes of that date: not the
\* close of another date, not a value of the grid axis.
C17_BaselineEverySurface ==
    HasSurface => BaselineIsClose

\* C17, amended: in every surface except the moneyness surface the overlay
\* baseline has exactly one value per grid date, the spx_close of the quotes
\* of that date: not the close of another date, not a value of the grid
\* axis.  On the moneyness surface the overlay is the ATM line: one value
\* per grid date, moneyness 0 at every date, which is not a close.
C17_BaselineIsCloseOfDate ==
    HasSurface =>
        IF surface.kind # "moneyness" THEN BaselineIsClose
        ELSE /\ Len(surface.spx_prices) = Len(surface.dates)
             /\ \A col \in DOMAIN surface.dates :
                   /\ surface.spx_prices[col] = 0
                   /\ \A n \in DOMAIN ColumnQuotes(col) :
                         ColumnQuotes(col)[n].spx_close # 0

C17_Witness ==
    /\ HasSurface
    /\ surface.kind = "spx_level"
    /\ Len(surface.dates) = 2
    /\ surface.spx_prices = <<5000, 5100>>
    /\ ColumnQuotes(1)[1].spx_close = 5000
    /\ ColumnQuotes(2)[1].spx_close = 5100
    /\ \A j \in DOMAIN surface.axis : surface.axis[j] # Ratio(5100, 1)

\* C18 as stated: for an axis value equal to the key of a quote of that
\* date and side the cell holds exactly that quote's metric, for every such
\* quote.
C18_RoundTripEveryQuote ==
    (HasSurface /\ surface.kind \in {"price", "price_png", "moneyness"}) =>
        \A c \in DOMAIN surface.Z :
            \A n \in DOMAIN ColumnQuotes(c[2]) :
                SameValue(KeyOf(ColumnQuotes(c[2])[n]), AxisValue(c[1]))
                    => surface.Z[c] = Ratio(ColumnQuotes(c[2])[n].lastPrice, 1)

\* The quotes of column col whose key is the axis value a
Matching(col, a) == SelectSeq(ColumnQuotes(col), LAMBDA q : SameValue(KeyOf(q), a))

\* C18: round trip.  For an axis value equal to the key (the strike, or the
\* moneyness on a moneyness axis) of a quote of that date and side, with the
\* tolerance > 0, the cell holds the metric of a quote that has this key: on
\* a strike axis the first such quote in table order, on a moneyness axis
\* one of them; exactly that quote's metric when no other quote of the date
\* and side shares its key.
C18_RoundTrip ==
    (HasSurface /\ surface.kind \in {"price", "price_png", "moneyness"}) =>
        \A c \in DOMAIN surface.Z :
            LET same == Matching(c[2], AxisValue(c[1])) IN
            same # <<>> =>
                /\ \E n \in DOMAIN same : surface.Z[c] = Ratio(same[n].lastPrice, 1)
                /\ surface.kind # "moneyness" =>
                      surface.Z[c] = Ratio(same[1].lastPrice, 1)

C18_Witness ==
    /\ HasSurface
    /\ surface.kind = "moneyness"
    /\ \E c \in DOMAIN surface.Z :
          /\ Len(Matching(c[2], AxisValue(c[1]))) = 2
          /\ Matching(c[2], AxisValue(c[1]))[1].lastPrice = 2
          /\ Matching(c[2], AxisValue(c[1]))[2].lastPrice = 1
          /\ surface.Z[c] = Ratio(2, 1)

\* The quotes of column col that are closest to the axis value a, as their
\* positions in csv order
TiedClosest(col, a) ==
    {n \in DOMAIN ColumnQuotes(col) :
        \A m \in DOMAIN ColumnQuotes(col) :
            RatioLeq(Apart(KeyOf(ColumnQuotes(col)[n]), a),
                     Apart(KeyOf(ColumnQuotes(col)[m]), a))}

\* What a nearest-match cell shows of the quote q it selected
CellMetric(q) ==
    IF surface.kind = "moneyness" THEN Ratio(q.lastPrice, 1)
    ELSE Ratio(q.spx_close + q.lastPrice, 1)

\* C24: in a nearest-match grid, when two or more quotes of a date are
\* equally close to an axis value, the cell is filled from the one that
\* occurs first in input order.
C24_TieFirstInInputOrder ==
    (HasSurface /\ surface.kind \in {"moneyness", "spx_level", "spx_dollars"}) =>
        \A c \in DOMAIN surface.Z :
            surface.Z[c] # NaN =>
                surface.Z[c] =
                    CellMetric(ColumnQuotes(c[2])[
                        SetMin(TiedClosest(c[2], AxisValue(c[1])))])

\* C25: grid construction never fails because a value is not found: for
\* every table and requested side, a table without a quote of that side
\* included, the builder returns a grid, and every cell of an exact-match
\* grid without a quote of its date at its strike is the missing sentinel.
C25_GridNeverRaises ==
    pc \notin {"grid_start", "grid_loaded"} =>
        /\ exc = "none"
        /\ HasSurface
        /\ surface.kind \in {"price", "price_png", "iv", "iv_png"} =>
              \A c \in DOMAIN surface.Z :
                  Matching(c[2], AxisValue(c[1])) = <<>> => surface.Z[c] = NaN
        /\ surface.kind \in {"combined", "combined_png"} =>
              \A c \in DOMAIN surface.Z :
                  LET same == Matching(c[2], AxisValue(c[1])) IN
                  /\ OfSide(same, "call") = <<>> => surface.Z[c] = NaN
                  /\ OfSide(same, "put") = <<>> => surface.Z_put[c] = NaN

----------------------------------------------------------------------------
(* End to end: process_data.py run on a dataset of one calls file and one  *)
(* puts file, then scripts/extract_liquidity_costs.py.  process_data.py    *)
(* writes 'spx_0dte_combined.csv' in the working directory and the second  *)
(* script reads 'dataset/processed/spx_0dte_combined.csv': no code carries *)
(* the one to the other.  What the second script finds is part of the      *)
(* initial state: nothing, or the combined csv an earlier run of           *)
(* process_data.py wrote over some of the same source files, put there by  *)
(* hand.  Prices are in quarters of a dollar: 20000 is 5000 dollars, 50 is *)
(* 12.5 dollars.                                                           *)

\* The one row of the calls file and of the puts file
CallRows ==
    [strike : {20000}, spx_close : {20020}, vix_close : {72},
     lastPrice : {50, 8}, bid : {48}, ask : {52}, volume : 0..MaxVolume,
     openInterest : {1}, inTheMoney : BOOLEAN]

PutRows ==
    [strike : {20000}, spx_close : {20020}, vix_close : {72},
     lastPrice : {32, 0}, bid : {30}, ask : {34}, volume : 0..MaxVolume,
     openInterest : {1}, inTheMoney : BOOLEAN]

\* The combined tables a run of process_data.py over the source files
\* `files` (path -> content) can write: one per glob order
EarlierTables(files) ==
    {Flatten([n \in DOMAIN o |-> TaggedFrame(o[n], files[o[n]].rows)]) :
        o \in Orders(DOMAIN files)}

\* The file systems the scripts can start on, given the source files:
\* nothing at the processed path, or a combined csv of an earlier run over
\* some of the source files
DiskStates(files) ==
    {files} \cup
    {files @@ (ProcessedCsv :> [readable |-> TRUE, rows |-> t]) :
        t \in UNION {EarlierTables([p \in S |-> files[p]]) :
                        S \in (SUBSET DOMAIN files) \ {{}}}}

InitE2E ==
    /\ \E c \in CallRows, p \in PutRows :
          disk \in DiskStates((PathCalls :> [readable |-> TRUE, rows |-> <<c>>])
                                @@ (PathPuts :> [readable |-> TRUE, rows |-> <<p>>]))
    /\ csv_files \in Orders({PathCalls, PathPuts})
    /\ i = 0
    /\ dataframes = <<>>
    /\ errors = <<>>
    /\ combined_df = <<>>
    /\ exc = "none"
    /\ pc = "loop"
    /\ df = <<>>
    /\ k = 0
    /\ liquidity_costs = <<>>
    /\ AnalysisIdle

NextE2E ==
    \/ LoopBody
    \/ ConcatAndReturn
    \/ SaveCombined
    \/ AnalyzeDataset
    \/ ReadCombined
    \/ DeriveRow
    \/ SaveLiquidity
    \/ AnalyzeLiquidityPatterns
    \/ CreateLiquidityVisualizations

SpecE2E == InitE2E /\ [][NextE2E]_vars

----------------------------------------------------------------------------
(* Properties of the whole pipeline (stated for SpecE2E) *)

Ingested == pc # "loop"

\* What the second script finds at the processed path is the table this run
\* of process_data.py produced (its rows, in some order)
HandedOver ==
    /\ ProcessedCsv \in DOMAIN disk
    /\ Len(disk[ProcessedCsv].rows) = Len(combined_df)
    /\ Range(disk[ProcessedCsv].rows) = Range(combined_df)

\* The derived row of a side
DerivedOf(side) == SelectSeq(liquidity_costs, LAMBDA d : d.option_type = side)

\* C20: end to end.  One calls file and one puts file for 20250309, each
\* with one row (strike 5000, spx_close 5005, call last 12.5, put last 8.0):
\* the normalized table has exactly 2 rows; the derived rows have moneyness
\* (5000 - 5005) / 5005, negative and of category ATM; the call has
\* intrinsic_value 5 and is_itm true; the put has intrinsic_value 0 and
\* is_itm false.  Ingestion and derivation raise nothing; the derivation
\* meant is the one of the table that ingestion produced.
C20_EndToEnd ==
    /\ exc # "none" => (exc = "FileNotFoundError" /\ ProcessedCsv \notin DOMAIN disk)
    /\ Ingested =>
          /\ Len(combined_df) = 2
          /\ {combined_df[n].option_type : n \in 1..2} = {"call", "put"}
          /\ \A n \in 1..2 : combined_df[n].date = <<2025, 3, 9>>
    /\ \A j \in Derived :
          LET d == liquidity_costs[j] IN
          /\ SameValue(d.moneyness, Ratio(5000 - 5005, 5005))
          /\ d.moneyness[1] * d.moneyness[2] < 0
          /\ d.moneyness_category = "ATM"
          /\ d.option_type = "call" => (d.intrinsic_value = 4 * 5 /\ d.is_itm)
          /\ d.option_type = "put" => (d.intrinsic_value = 0 /\ ~ d.is_itm)
    /\ (HandedOver /\ pc \in {"derive_done", "analyzed", "visualized"}) =>
          /\ Len(liquidity_costs) = 2
          /\ Len(DerivedOf("call")) = 1
          /\ Len(DerivedOf("put")) = 1

C20_Witness ==
    /\ pc = "derive_done"
    /\ HandedOver
    /\ Len(combined_df) = 2
    /\ Len(DerivedOf("call")) = 1
    /\ Len(DerivedOf("put")) = 1
    /\ DerivedOf("call")[1].last_price = 50
    /\ DerivedOf("call")[1].intrinsic_value = 20
    /\ DerivedOf("call")[1].is_itm
    /\ DerivedOf("put")[1].last_price = 32
    /\ DerivedOf("put")[1].intrinsic_value = 0
    /\ ~ DerivedOf("put")[1].is_itm
    /\ DerivedOf("put")[1].moneyness_category = "ATM"

----------------------------------------------------------------------------
(* Several sources of one day: process_data.py run on two calls files and  *)
(* one puts file of 20250309, one row each, then                           *)
(* scripts/extract_liquidity_costs.py on what is at the processed path.  A *)
(* source may come without the lastPrice column.  Prices are in quarters   *)
(* of a dollar.                                                            *)

PathCallsLate ==
    <<"d", "a", "t", "a", "s", "e", "t", "/", "c", "a", "l", "l", "s", "_",
      "2", "0", "2", "5", "0", "3", "0", "9", "_", "2", "0", "5", "5", ".",
      "c", "s", "v">>

\* The row a source can hold
SourceRows ==
    [strike : {20000, 20040}, spx_close : {20020}, vix_close : {72},
     lastPrice : {8, 50}, bid : {48}, ask : {52}, volume : {1},
     openInterest : {1}, inTheMoney : {TRUE}]

InitSources ==
    /\ \E rows \in [{PathCalls, PathCallsLate, PathPuts} -> SourceRows],
          lacking \in SUBSET {PathCalls, PathCallsLate, PathPuts} :
          disk \in DiskStates(
                     [p \in {PathCalls, PathCallsLate, PathPuts} |->
                         [readable |-> TRUE,
                          rows |-> IF p \in lacking
                                   THEN <<[c \in DOMAIN rows[p] \ {"lastPrice"} |->
                                              rows[p][c]]>>
                                   ELSE <<rows[p]>>]])
    /\ csv_files \in Orders({PathCalls, PathCallsLate, PathPuts})
    /\ i = 0
    /\ dataframes = <<>>
    /\ errors = <<>>
    /\ combined_df = <<>>
    /\ exc = "none"
    /\ pc = "loop"
    /\ df = <<>>
    /\ k = 0
    /\ liquidity_costs = <<>>
    /\ AnalysisIdle

SpecSources == InitSources /\ [][NextE2E]_vars

----------------------------------------------------------------------------
(* Properties of duplicate keys and missing columns (stated for            *)
(* SpecSources)                                                            *)

\* The (trade_date, option_side, strike) key of a row
QuoteKey(r) == <<r.date, r.option_type, r.strike>>

\* Two sources hold a row of the same key: the two calls files of the day,
\* with the same strike
DuplicateSources ==
    disk[PathCalls].rows[1].strike = disk[PathCallsLate].rows[1].strike

\* A warning of the given kind has reached the caller: as a logged line or
\* as the exception that ended the run
Flagged(kind) == exc = kind \/ \E n \in DOMAIN errors : errors[n].error = kind

\* C21: when two source files map to the same (trade_date, option_side,
\* strike) key, both rows are in the normalized table and in the
\* derived-metrics table, and the duplicate key is flagged to the caller.
C21_DuplicatesRetainedAndFlagged ==
    (Ingested /\ DuplicateSources) =>
        /\ Len(combined_df) = 3
        /\ \E a, b \in DOMAIN combined_df :
              /\ a # b
              /\ QuoteKey(combined_df[a]) = QuoteKey(combined_df[b])
              /\ combined_df[a].filename # combined_df[b].filename
        /\ (HandedOver /\ DerivationDone) =>
              /\ Len(liquidity_costs) = 3
              /\ \E a, b \in Derived :
                    /\ a # b
                    /\ liquidity_costs[a].option_type = "call"
                    /\ liquidity_costs[b].option_type = "call"
                    /\ liquidity_costs[a].strike = liquidity_costs[b].strike
        /\ Flagged("DuplicateKeyWarning")

\* The sources that have no lastPrice column, and the rows of the combined
\* csv that come from the other sources
Lacking == {p \in DOMAIN disk : p \in Range(csv_files)
                                  /\ "lastPrice" \notin DOMAIN disk[p].rows[1]}

CompleteRows == SelectSeq(combined_df, LAMBDA r : "lastPrice" \in DOMAIN r)

\* C22: when a source lacks a required column (here lastPrice), its rows
\* are excluded from the derived-metrics table and from every aggregate,
\* and the source is flagged; the rows of the other sources are derived.
C22_MissingColumnSourceExcluded ==
    (Ingested /\ Lacking # {}) =>
        /\ Len(combined_df) = 3
        /\ (HandedOver /\ DerivationDone) =>
              /\ Len(liquidity_costs) = Len(CompleteRows)
              /\ \A j \in Derived :
                    \E n \in DOMAIN CompleteRows :
                        /\ liquidity_costs[j].strike = CompleteRows[n].strike
                        /\ liquidity_costs[j].last_price = CompleteRows[n].lastPrice
        /\ (HandedOver /\ Analyzed) =>
              total_volume = Sum(Column(CompleteRows, "volume"))
        /\ pc # "loop" => Flagged("MissingFieldError")

====
